---- MODULE Spec2Model ----
(***************************************************************************)
(* Model of the "Add Md to Folder" Raycast extension: the quick clipboard  *)
(* save (add-md-to-folder.ts), the form save and "Save and Open"           *)
(* (add-md-select-folder.tsx), the folder list (quoted in CHANGELOG.md)    *)
(* and the append command (append-to-md.tsx), over a filesystem of         *)
(* directories and regular files.                                          *)
(*                                                                         *)
(* Specifications: Spec (quick and form save), SpecList (folder list),     *)
(* SpecOpen (Save and Open), SpecAppend (append form), SpecSubmits (submit *)
(* events of one open form), SpecRace (two quick saves as processes) and   *)
(* SpecSan (sanitizeFilename alone).                                       *)
(*                                                                         *)
(* Strings are sequences of one-character strings.  A path is a sequence   *)
(* of segments, each segment a string; <<>> is the filesystem root "/".    *)
(* A relative folder such as "W" is the one-segment path << <<"W">> >> and *)
(* the empty string "" is the empty relative path <<>>.                    *)
(***************************************************************************)
EXTENDS Integers, Sequences, FiniteSets, TLC

VARIABLES prefs, dirs, files, last, nOps, san, app, editor, procs, inv, res

vars ==
  <<prefs, dirs, files, last, nOps, san, app, editor, procs, inv, res>>

(***************************************************************************)
(* Bounds of the model.                                                    *)
(***************************************************************************)
\* number of command invocations explored in one behaviour
MaxOps == 2
\* length of the free tail of the strings given to sanitizeFilename
MaxTail == 3
\* length of the chain of nested directories given to the enumerations
MaxChain == 7

(***************************************************************************)
(* Characters.                                                             *)
(***************************************************************************)
\* the characters matched by \s that occur in the model's inputs
Whitespace == {" ", "\n"}

\* the character class [/:*?"<>|\\] of sanitizeFilename
IllegalChars == {"/", ":", "*", "?", "\"", "<", ">", "|", "\\"}

Digits == <<"0", "1", "2", "3", "4", "5", "6", "7", "8", "9">>

Min(a, b) == IF a < b THEN a ELSE b

(***************************************************************************)
(* JavaScript string primitives.                                           *)
(***************************************************************************)
SetMin(S) == CHOOSE x \in S : \A y \in S : x <= y

SetMax(S) == CHOOSE x \in S : \A y \in S : y <= x

\* the positions of s that hold no whitespace
NonWhitespaceAt(s) == {i \in 1..Len(s) : s[i] \notin Whitespace}

\* String.prototype.trim
Trim(s) ==
  IF NonWhitespaceAt(s) = {} THEN <<>>
  ELSE SubSeq(s, SetMin(NonWhitespaceAt(s)), SetMax(NonWhitespaceAt(s)))

\* String.prototype.slice(0, n)
Slice0(s, n) == SubSeq(s, 1, Min(n, Len(s)))

\* name.replace(/[/:*?"<>|\\]/g, " ")
ReplaceIllegal(s) ==
  [i \in 1..Len(s) |-> IF s[i] \in IllegalChars THEN " " ELSE s[i]]

IsKept(c) == c # ""

\* sanitized.replace(/\s+/g, " "): every maximal run of whitespace becomes
\* one space (the first whitespace of a run becomes the space, the others
\* are dropped)
CollapseWhitespace(s) ==
  SelectSeq([i \in 1..Len(s) |->
               IF s[i] \notin Whitespace THEN s[i]
               ELSE IF i > 1 /\ s[i - 1] \in Whitespace THEN ""
               ELSE " "],
            IsKept)

\* the length limit of sanitizeFilename
MaxFilenameLength == 80

sanitizeFilename(name) ==
  Slice0(Trim(CollapseWhitespace(ReplaceIllegal(name))), MaxFilenameLength)

\* content.split("\n")[0]
FirstLine(s) ==
  LET newlines == {i \in 1..Len(s) : s[i] = "\n"}
  IN  IF newlines = {} THEN s ELSE SubSeq(s, 1, SetMin(newlines) - 1)

\* decimal digits of n, at least width characters (zero padded)
RECURSIVE Pad(_, _)
Pad(n, width) ==
  IF width <= 1 /\ n < 10 THEN <<Digits[n + 1]>>
  ELSE Pad(n \div 10, width - 1) \o <<Digits[(n % 10) + 1]>>

\* `${counter}`
NumToStr(n) == Pad(n, 1)

(***************************************************************************)
(* The clock: new Date() and Date.prototype.toISOString.                   *)
(***************************************************************************)
\* An instant is given by its UTC calendar fields; tz is the offset in hours
\* of the user's local time zone (hour + tz stays within the same day).
Clock ==
  { [year |-> 2026, month |-> 1, day |-> 13, hour |-> 4, minute |-> 30,
     second |-> 0, ms |-> 7, tz |-> 0],
    [year |-> 2026, month |-> 1, day |-> 13, hour |-> 4, minute |-> 30,
     second |-> 1, ms |-> 250, tz |-> 8] }

\* the value recorded for a run that never calls new Date()
NoTime ==
  [year |-> 0, month |-> 0, day |-> 0, hour |-> 0, minute |-> 0,
   second |-> 0, ms |-> 0, tz |-> 0]

\* "YYYY-MM-DDTHH:mm:ss.sssZ", always in UTC
toISOString(now) ==
  Pad(now.year, 4) \o <<"-">> \o Pad(now.month, 2) \o <<"-">> \o
  Pad(now.day, 2) \o <<"T">> \o Pad(now.hour, 2) \o <<":">> \o
  Pad(now.minute, 2) \o <<":">> \o Pad(now.second, 2) \o <<".">> \o
  Pad(now.ms, 3) \o <<"Z">>

NotDateSeparator(c) == c \notin {"-", ":", "T"}

\* now.toISOString().replace(/[-:T]/g, "").slice(0, 15)
Timestamp(now) == Slice0(SelectSeq(toISOString(now), NotDateSeparator), 15)

\* `note-${timestamp}`
TimestampName(now) == <<"n", "o", "t", "e", "-">> \o Timestamp(now)

(***************************************************************************)
(* Paths and the filesystem (fs.existsSync, fs.mkdirSync, fs.writeFileSync)*)
(***************************************************************************)
\* process.env.HOME
HOME == <<"/", "h">>

\* const ext = ".md"
Ext == <<".", "m", "d">>

\* path.join(directory, relative) for a normalized relative path; an empty
\* relative path contributes nothing
PathJoin(directory, relative) == directory \o relative

\* path.join(directory, `${name}`) for a single file name
FileIn(directory, name) == Append(directory, name)

Parent(p) == SubSeq(p, 1, Len(p) - 1)

\* the path itself and all its ancestors
Prefixes(p) == {SubSeq(p, 1, k) : k \in 0..Len(p)}

\* fs.existsSync on the filesystem fs = [dirs, files]
existsSync(fs, p) == p \in fs.dirs \/ p \in DOMAIN fs.files

\* fs.mkdirSync(p, {recursive: true}) throws when an ancestor or the path
\* itself is a regular file
MkdirBlocked(fs, p) == \E q \in Prefixes(p) : q \in DOMAIN fs.files

\* the directories after a successful fs.mkdirSync(p, {recursive: true})
mkdirSync(fs, p) == fs.dirs \cup Prefixes(p)

\* fs.writeFileSync(p, data) throws when p is a directory or its parent is
\* not a directory
WriteBlocked(fs, p) == p \in fs.dirs \/ Parent(p) \notin fs.dirs

\* a write that leaves an existing file as it is
writeFileSyncKeepsExisting(fs, p, data) ==
  [q \in (DOMAIN fs.files) \cup {p} |->
     IF q \in DOMAIN fs.files THEN fs.files[q] ELSE data]

\* the files after a successful fs.writeFileSync(p, data): the file is
\* created, or truncated and replaced when it exists
writeFileSync(fs, p, data) ==
  [q \in (DOMAIN fs.files) \cup {p} |-> IF q = p THEN data ELSE fs.files[q]]

\* the segments of a path text: the pieces between the "/"; empty pieces
\* count for nothing.  This is the path the filesystem resolves a text to.
RECURSIVE PathOf(_)
PathOf(text) ==
  IF text = <<>> THEN <<>>
  ELSE IF Head(text) = "/" THEN PathOf(Tail(text))
  ELSE LET n == SetMin({i \in 1..Len(text) : text[i] = "/"}
                       \cup {Len(text) + 1}) - 1
       IN  <<SubSeq(text, 1, n)>> \o PathOf(SubSeq(text, n + 1, Len(text)))

\* segments joined by "/"
RECURSIVE JoinSegments(_)
JoinSegments(segments) ==
  IF segments = <<>> THEN <<>>
  ELSE IF Len(segments) = 1 THEN Head(segments)
  ELSE Head(segments) \o <<"/">> \o JoinSegments(Tail(segments))

\* path.normalize for texts without "." and ".." segments: repeated "/"
\* collapse, a leading "/" and a trailing "/" are kept
Normalize(text) ==
  IF text = <<>> THEN <<".">>
  ELSE (IF Head(text) = "/" THEN <<"/">> ELSE <<>>) \o
       JoinSegments(PathOf(text)) \o
       (IF text[Len(text)] = "/" /\ PathOf(text) # <<>> THEN <<"/">> ELSE <<>>)

\* path.join(a, b) on texts: the non-empty arguments joined by "/" and
\* normalized
pathJoin(a, b) ==
  Normalize(IF b = <<>> THEN a ELSE IF a = <<>> THEN b ELSE a \o <<"/">> \o b)

\* an expansion that never replaces the marker
expandHomeNever(filepath) == filepath

\* if (filepath.startsWith("~"))
\*   return path.join(process.env.HOME || "", filepath.slice(1));
\* return filepath;
expandHome(filepath) ==
  IF filepath # <<>> /\ Head(filepath) = "~"
    THEN pathJoin(HOME, Tail(filepath))
    ELSE filepath

\* a probe that returns its first candidate without testing it
ProbeCounterNoLoop(fs, directory, filename, counter) ==
  FileIn(directory, filename \o <<"-">> \o NumToStr(counter) \o Ext)

\* the while loop of getUniqueFilePath, entered with counter
RECURSIVE ProbeCounter(_, _, _, _)
ProbeCounter(fs, directory, filename, counter) ==
  LET candidate ==
        FileIn(directory, filename \o <<"-">> \o NumToStr(counter) \o Ext)
  IN  IF existsSync(fs, candidate)
        THEN ProbeCounter(fs, directory, filename, counter + 1)
        ELSE candidate

\* a resolver that returns directory/filename.md without testing it
getUniqueFilePathNoCheck(fs, directory, filename) ==
  FileIn(directory, filename \o Ext)

getUniqueFilePath(fs, directory, filename) ==
  LET filePath == FileIn(directory, filename \o Ext)
  IN  IF ~existsSync(fs, filePath) THEN filePath
      ELSE ProbeCounter(fs, directory, filename, 1)

(***************************************************************************)
(* Inputs.                                                                 *)
(***************************************************************************)
\* an optional argument: <<>> when absent (undefined), <<v>> when supplied
Undefined == <<>>

Some(v) == <<v>>

\* JavaScript truthiness of an optional string: undefined and "" are falsy
Truthy(opt) == opt # Undefined /\ opt[1] # <<>>

\* the value of an optional string where the code has tested it
ValueOf(opt) == opt[1]

\* the relative folders "W" and "I"
FolderW == << <<"W">> >>

FolderI == << <<"I">> >>

\* the value "__root__" of the root item of the form's dropdown
RootSentinel == << <<"_", "_", "r", "o", "o", "t", "_", "_">> >>

\* preferences.rootDirectory = "~/N"
RootDirectoryPref == <<"~", "/", "N">>

\* clipboard texts and typed contents
Contents ==
  { <<>>, <<" ">>, <<"a">>, <<"a", "\n">>, <<"\n", "a">>, <<"?">> }

\* values typed into the Custom Filename field
CustomFilenames == { <<>>, <<"b">>, <<"?">> }

\* the root directory /h/N the preference names
RootDir0 == PathOf(expandHome(RootDirectoryPref))

NoFiles == [p \in {} |-> <<>>]

\* the filesystems a command may find: one where the root directory does not
\* exist yet, and one whose root directory holds the notes a.md and a-1.md
\* and a regular file named I
InitialFileSystems ==
  { [dirs |-> {<<>>}, files |-> NoFiles],
    [dirs |-> Prefixes(RootDir0),
     files |-> [p \in {FileIn(RootDir0, <<"a">> \o Ext),
                       FileIn(RootDir0, <<"a", "-", "1">> \o Ext),
                       FileIn(RootDir0, <<"I">>)}
                  |-> <<"o">>]] }

(***************************************************************************)
(* The steps both save handlers share.                                     *)
(***************************************************************************)
\* if (!fs.existsSync(targetDir)) fs.mkdirSync(targetDir, {recursive: true})
\* throws when the directory cannot be created
MkdirThrows(fs, targetDir, mkdirFails) ==
  ~existsSync(fs, targetDir) /\ (MkdirBlocked(fs, targetDir) \/ mkdirFails)

\* the filesystem after the "ensure target directory exists" step
EnsureDir(fs, targetDir) ==
  [dirs |-> IF existsSync(fs, targetDir) THEN fs.dirs
            ELSE mkdirSync(fs, targetDir),
   files |-> fs.files]

\* try { fs.writeFileSync(filePath, data) } catch { showToast("Save failed!") }
\* on the filesystem fs1, for the path filePath that getUniqueFilePath gave
WriteNote(base, fs1, data, writeFails, filename, filePath) ==
  IF WriteBlocked(fs1, filePath) \/ writeFails
    THEN [dirs |-> fs1.dirs, files |-> fs1.files,
          last |-> [base EXCEPT !.filename = filename,
                                !.filePath = filePath,
                                !.outcome = "toastSaveFailed"]]
    ELSE [dirs |-> fs1.dirs,
          files |-> writeFileSync(fs1, filePath, data),
          last |-> [base EXCEPT !.filename = filename,
                                !.filePath = filePath,
                                !.existedBefore = existsSync(fs1, filePath),
                                !.wrote = TRUE,
                                !.outcome = "hudSaved"]]

\* const filePath = getUniqueFilePath(targetDir, filename), then the write
AllocateAndWrite(base, fs1, targetDir, data, writeFails, filename) ==
  WriteNote(base, fs1, data, writeFails, filename,
            getUniqueFilePath(fs1, targetDir, filename))

(***************************************************************************)
(* add-md-to-folder.ts: saveMarkdownFile(targetFolder)                     *)
(***************************************************************************)
\* a resolution that tests the default subfolder before the argument
QuickTargetDirDefaultFirst(pr, targetFolder) ==
  LET rootDir == PathOf(expandHome(pr.rootDirectory))
  IN  IF pr.defaultSubfolder # <<>>
        THEN PathJoin(rootDir, pr.defaultSubfolder)
      ELSE IF Truthy(targetFolder)
        THEN PathJoin(rootDir, ValueOf(targetFolder))
        ELSE rootDir

\* the target directory of the quick save
QuickTargetDir(pr, targetFolder) ==
  LET rootDir == PathOf(expandHome(pr.rootDirectory))
  IN  IF Truthy(targetFolder) THEN PathJoin(rootDir, ValueOf(targetFolder))
      ELSE IF pr.defaultSubfolder # <<>>
        THEN PathJoin(rootDir, pr.defaultSubfolder)
        ELSE rootDir

\* if (!content || content.trim() === "")
ClipboardEmpty(clip) == ~Truthy(clip) \/ Trim(ValueOf(clip)) = <<>>

\* sanitizeFilename(lines[0].trim()) of the quick save
QuickFirstLineName(content) == sanitizeFilename(Trim(FirstLine(content)))

\* the base name of the quick save: the sanitized first line, else the
\* timestamp name
QuickFilename(content, now) ==
  IF QuickFirstLineName(content) = <<>> THEN TimestampName(now)
  ELSE QuickFirstLineName(content)

\* saveMarkdownFile from the clipboard read on, in the directory targetDir
\* of the filesystem fs1 left by the mkdir step
QuickSaveFrom(base, fs1, targetDir, clip, now, writeFails) ==
  IF ClipboardEmpty(clip)
    THEN [dirs |-> fs1.dirs, files |-> fs1.files,
          last |-> [base EXCEPT !.outcome = "toastEmpty"]]
    ELSE AllocateAndWrite(
           [base EXCEPT !.now = IF QuickFirstLineName(ValueOf(clip)) = <<>>
                                  THEN now ELSE NoTime],
           fs1, targetDir, ValueOf(clip), writeFails,
           QuickFilename(ValueOf(clip), now))

\* saveMarkdownFile once its target directory is determined
QuickSaveIn(fs, targetFolder, clip, now, mkdirFails, writeFails, targetDir) ==
  LET base == [op |-> "quick", folder |-> targetFolder,
               content |-> IF Truthy(clip) THEN ValueOf(clip) ELSE <<>>,
               customFilename |-> <<>>, now |-> NoTime,
               targetDir |-> targetDir, madeDir |-> FALSE,
               filename |-> <<>>, filePath |-> <<>>,
               existedBefore |-> FALSE, wrote |-> FALSE,
               outcome |-> "threw"]
  IN  IF MkdirThrows(fs, targetDir, mkdirFails)
        THEN [dirs |-> fs.dirs, files |-> fs.files, last |-> base]
        ELSE QuickSaveFrom([base EXCEPT !.madeDir = ~existsSync(fs, targetDir)],
                           EnsureDir(fs, targetDir), targetDir, clip, now,
                           writeFails)

\* One run of saveMarkdownFile on the filesystem fs.  clip is the result of
\* Clipboard.readText(); mkdirFails and writeFails are I/O errors of the host.
\* The result holds the filesystem afterwards and what the run did.
saveMarkdownFile(pr, fs, targetFolder, clip, now, mkdirFails, writeFails) ==
  QuickSaveIn(fs, targetFolder, clip, now, mkdirFails, writeFails,
              QuickTargetDir(pr, targetFolder))

(***************************************************************************)
(* add-md-select-folder.tsx: saveFile(values) as called by handleSubmit    *)
(***************************************************************************)
\* the target directory of the form save
FormTargetDir(pr, folder) ==
  LET rootDir == PathOf(expandHome(pr.rootDirectory))
  IN  IF folder = RootSentinel THEN rootDir ELSE PathJoin(rootDir, folder)

\* const textContent = values.content.trim()
FormTextContent(content) == Trim(content)

\* a choice that falls through to the first line when the custom filename
\* sanitizes to the empty string
FormChosenNameFallsThrough(textContent, customFilename) ==
  IF sanitizeFilename(Trim(customFilename)) # <<>>
    THEN sanitizeFilename(Trim(customFilename))
    ELSE sanitizeFilename(Trim(FirstLine(textContent)))

\* the name before the timestamp fallback: the sanitized custom filename
\* when the trimmed custom filename is not empty, else the sanitized first
\* line of textContent
FormChosenName(textContent, customFilename) ==
  IF Trim(customFilename) # <<>> THEN sanitizeFilename(Trim(customFilename))
  ELSE sanitizeFilename(Trim(FirstLine(textContent)))

\* the base name of the form save
FormFilename(textContent, customFilename, now) ==
  IF FormChosenName(textContent, customFilename) = <<>>
    THEN TimestampName(now)
    ELSE FormChosenName(textContent, customFilename)

\* saveFile once textContent and the target directory are determined
SaveFileIn(fs, values, now, mkdirFails, writeFails, textContent, targetDir) ==
  LET base == [op |-> "form", folder |-> Some(values.folder),
               content |-> values.content,
               customFilename |-> values.customFilename, now |-> NoTime,
               targetDir |-> <<>>, madeDir |-> FALSE, filename |-> <<>>,
               filePath |-> <<>>, existedBefore |-> FALSE,
               wrote |-> FALSE, outcome |-> "toastEmpty"]
  IN  IF textContent = <<>>
        THEN [dirs |-> fs.dirs, files |-> fs.files, last |-> base]
      ELSE IF MkdirThrows(fs, targetDir, mkdirFails)
        THEN [dirs |-> fs.dirs, files |-> fs.files,
              last |-> [base EXCEPT !.targetDir = targetDir,
                                    !.outcome = "threw"]]
      ELSE AllocateAndWrite(
             [base EXCEPT !.targetDir = targetDir,
                          !.madeDir = ~existsSync(fs, targetDir),
                          !.now = IF FormChosenName(textContent,
                                       values.customFilename) = <<>>
                                    THEN now ELSE NoTime],
             EnsureDir(fs, targetDir), targetDir, textContent, writeFails,
             FormFilename(textContent, values.customFilename, now))

\* One run of saveFile on the filesystem fs with the form's values.
saveFile(pr, fs, values, now, mkdirFails, writeFails) ==
  SaveFileIn(fs, values, now, mkdirFails, writeFails,
             FormTextContent(values.content),
             FormTargetDir(pr, values.folder))

(***************************************************************************)
(* The state machine of the save commands.                                 *)
(***************************************************************************)
NoOp ==
  [op |-> "none", folder |-> Undefined, content |-> <<>>,
   customFilename |-> <<>>, now |-> NoTime,
   targetDir |-> <<>>, madeDir |-> FALSE, filename |-> <<>>,
   filePath |-> <<>>, existedBefore |-> FALSE, wrote |-> FALSE,
   outcome |-> "none"]

NoSan == [input |-> <<>>, output |-> <<>>, again |-> <<>>, done |-> FALSE]

\* the Append to Markdown command is not running
NoApp == [phase |-> "off"]

\* the editor has not been asked to open anything; no default editor is
\* configured
NoEditor ==
  [defaultEditor |-> <<>>, called |-> FALSE, filePath |-> <<>>,
   application |-> <<>>, failed |-> FALSE, hud |-> "none"]

\* no function has been applied on its own
NoRes == [done |-> FALSE]

\* no form is open
NoInv ==
  [command |-> "none", open |-> FALSE, awaitingHud |-> 0,
   awaitingToast |-> 0, performed |-> 0]

\* no quick saves run as concurrent processes
NoProcs == [run |-> <<>>, log |-> <<>>]

Init ==
  /\ prefs \in { [rootDirectory |-> RootDirectoryPref, defaultSubfolder |-> d]
                 : d \in {<<>>, FolderI} }
  /\ \E fs \in InitialFileSystems : dirs = fs.dirs /\ files = fs.files
  /\ last = NoOp
  /\ nOps = 0
  /\ san = NoSan
  /\ app = NoApp
  /\ editor = NoEditor
  /\ procs = NoProcs
  /\ inv = NoInv
  /\ res = NoRes

\* the I/O error the host raises during one command, if any
IoErrors == {"none", "mkdir", "write"}

CurrentFs == [dirs |-> dirs, files |-> files]

\* the command "Add Md to Folder" (targetFolder absent) or the folder list
\* calling saveMarkdownFile(folderPath)
QuickSave ==
  /\ nOps < MaxOps
  /\ \E targetFolder \in {Undefined, Some(FolderW)},
        clip \in {Undefined} \cup {Some(c) : c \in Contents},
        now \in Clock, ioError \in IoErrors :
       \E r \in {saveMarkdownFile(prefs, CurrentFs, targetFolder, clip, now,
                                    ioError = "mkdir", ioError = "write")} :
           /\ dirs' = r.dirs
           /\ files' = r.files
           /\ last' = r.last
  /\ nOps' = nOps + 1
  /\ UNCHANGED <<prefs, san, app, editor, procs, inv, res>>

\* the form's "Save Markdown" action: handleSubmit calling saveFile
FormSave ==
  /\ nOps < MaxOps
  /\ \E folder \in {RootSentinel, FolderW},
        content \in Contents, customFilename \in CustomFilenames,
        now \in Clock, ioError \in IoErrors :
       \E r \in {saveFile(prefs, CurrentFs,
                            [folder |-> folder, content |-> content,
                             customFilename |-> customFilename],
                            now, ioError = "mkdir", ioError = "write")} :
           /\ dirs' = r.dirs
           /\ files' = r.files
           /\ last' = r.last
  /\ nOps' = nOps + 1
  /\ UNCHANGED <<prefs, san, app, editor, procs, inv, res>>

Next == QuickSave \/ FormSave

Spec == Init /\ [][Next]_vars

(***************************************************************************)
(* The folder list command (its code is quoted in CHANGELOG.md): one item  *)
(* per subfolder and one root item, each calling handleSave.               *)
(***************************************************************************)
\* if (depth > 3) return folders: the calls of depth 0..3 list their items
MaxListDepth == 3

\* a test that finds no name hidden
IsHiddenNever(name) == FALSE

\* item.name.startsWith(".")
IsHidden(name) == name # <<>> /\ Head(name) = "."

\* fs.readdirSync(p, {withFileTypes: true}): the names directly inside p
readdirSync(fs, p) ==
  { e[Len(e)] : e \in { q \in fs.dirs \cup DOMAIN fs.files :
                          Len(q) = Len(p) + 1 /\ Parent(q) = p } }

\* fs.readdirSync(p) throws when p is no directory or is one of the
\* directories the process cannot read
ReaddirBlocked(fs, unreadable, p) == p \notin fs.dirs \/ p \in unreadable

\* an enumeration that lets a failed read escape: nothing at all is listed
\* when one directory cannot be read
SubfoldersOfItemNoCatch(fs, unreadable, rootDir, relativePath, below) ==
  IF \E d \in unreadable : d \in fs.dirs THEN {} ELSE {relativePath} \cup below

\* folders.push({path: relativePath, ...});
\* folders.push(...getSubfolders(rootDir, relativePath, depth + 1))
SubfoldersOfItem(fs, unreadable, rootDir, relativePath, below) ==
  {relativePath} \cup below

\* getSubfolders(rootDir, currentPath, depth): the relative paths of the
\* folders it returns; a failed readdirSync is caught and ends the loop of
\* that call only
RECURSIVE getSubfolders(_, _, _, _, _)
getSubfolders(fs, unreadable, rootDir, currentPath, depth) ==
  IF depth > MaxListDepth THEN {}
  ELSE IF ReaddirBlocked(fs, unreadable, PathJoin(rootDir, currentPath)) THEN {}
  ELSE UNION
         { IF IsHidden(name) THEN {}
           ELSE IF PathJoin(rootDir, Append(currentPath, name)) \in fs.dirs
             THEN SubfoldersOfItem(fs, unreadable, rootDir,
                    Append(currentPath, name),
                    getSubfolders(fs, unreadable, rootDir,
                                  Append(currentPath, name), depth + 1))
             ELSE {}
           : name \in readdirSync(fs, PathJoin(rootDir, currentPath)) }

\* the arguments the items of the list pass to handleSave: folder.path for
\* a folder item (the default folder included), nothing for the root item
ListRootItem == Undefined

ListItems(pr, fs) ==
  {ListRootItem} \cup
  {Some(f) : f \in getSubfolders(fs, {}, PathOf(expandHome(pr.rootDirectory)),
                                 <<>>, 0)}

\* const handleSave = async (folderPath?: string) =>
\*   { await saveMarkdownFile(folderPath); }
handleSave(pr, fs, folderPath, clip, now, mkdirFails, writeFails) ==
  LET r == saveMarkdownFile(pr, fs, folderPath, clip, now,
                            mkdirFails, writeFails)
  IN  [r EXCEPT !.last.op = "list"]

\* the user presses Enter on one item of the folder list
ListSave ==
  /\ nOps < MaxOps
  /\ \E folderPath \in ListItems(prefs, CurrentFs),
        clip \in {Undefined} \cup {Some(c) : c \in Contents},
        now \in Clock, ioError \in IoErrors :
       \E r \in {handleSave(prefs, CurrentFs, folderPath, clip, now,
                              ioError = "mkdir", ioError = "write")} :
           /\ dirs' = r.dirs
           /\ files' = r.files
           /\ last' = r.last
  /\ nOps' = nOps + 1
  /\ UNCHANGED <<prefs, san, app, editor, procs, inv, res>>

NextList == ListSave \/ FormSave

SpecList == Init /\ [][NextList]_vars

(***************************************************************************)
(* add-md-select-folder.tsx: handleSubmitAndOpen ("Save and Open").        *)
(***************************************************************************)
\* preferences.defaultEditor: not set, or the application "C"
DefaultEditors == { <<>>, <<"C">> }

\* a handler that opens the editor whatever saveFile returned
OpenAttemptedAlways(r) == TRUE

\* if (filePath): saveFile returned the path of the file it wrote
OpenAttempted(r) == r.last.wrote

\* try { await open(filePath, defaultEditor) or open(filePath);
\*       showHUD("Saved and Opened ...") }
\* catch { showHUD("Saved: ... (Cannot open with ...)") }
OpenInEditor(ed, filePath, openFails) ==
  [defaultEditor |-> ed.defaultEditor, called |-> TRUE,
   filePath |-> filePath, application |-> ed.defaultEditor,
   failed |-> openFails,
   hud |-> IF openFails THEN "hudSavedCannotOpen" ELSE "hudSavedOpened"]

\* handleSubmitAndOpen after `const filePath = await saveFile(values)`
\* gave the result r: the editor when saveFile returned a path, then
\* popToRoot
handleSubmitAndOpen(r, ed, openFails) ==
  [dirs |-> r.dirs, files |-> r.files,
   last |-> [r.last EXCEPT !.op = "formOpen"],
   editor |-> IF OpenAttempted(r)
                THEN OpenInEditor(ed, r.last.filePath, openFails)
                ELSE [NoEditor EXCEPT !.defaultEditor = ed.defaultEditor]]

\* open() can fail only when it is called
OpenFailures(r) == IF OpenAttempted(r) THEN BOOLEAN ELSE {FALSE}

InitOpen ==
  /\ prefs = [rootDirectory |-> RootDirectoryPref, defaultSubfolder |-> <<>>]
  /\ \E fs \in InitialFileSystems : dirs = fs.dirs /\ files = fs.files
  /\ last = NoOp
  /\ nOps = 0
  /\ san = NoSan
  /\ app = NoApp
  /\ editor \in {[NoEditor EXCEPT !.defaultEditor = e] : e \in DefaultEditors}
  /\ procs = NoProcs
  /\ inv = NoInv
  /\ res = NoRes

\* the form's "Save and Open" action
FormSaveAndOpen ==
  /\ nOps < MaxOps
  /\ \E folder \in {RootSentinel, FolderW},
        content \in Contents, customFilename \in CustomFilenames,
        now \in Clock, ioError \in IoErrors :
       \E r \in {saveFile(prefs, CurrentFs,
                            [folder |-> folder, content |-> content,
                             customFilename |-> customFilename],
                            now, ioError = "mkdir", ioError = "write")} :
         \E openFails \in OpenFailures(r) :
           \E h \in {handleSubmitAndOpen(r, editor, openFails)} :
             /\ dirs' = h.dirs
             /\ files' = h.files
             /\ last' = h.last
             /\ editor' = h.editor
  /\ nOps' = nOps + 1
  /\ UNCHANGED <<prefs, san, app, procs, inv, res>>

NextOpen == FormSaveAndOpen

SpecOpen == InitOpen /\ [][NextOpen]_vars

(***************************************************************************)
(* Two quick saves running as separate processes on one filesystem.  Each  *)
(* process runs saveMarkdownFile() in two steps: up to and including       *)
(* getUniqueFilePath, and from fs.writeFileSync on.  The other process can *)
(* run between the two.                                                    *)
(***************************************************************************)
Processes == {1, 2}

\* the clipboard texts of the processes: "a" and "a\nx" share the first
\* line "a"
RaceClips == { <<"a">>, <<"a", "\n", "x">>, <<"b">> }

InitRace ==
  /\ prefs \in { [rootDirectory |-> RootDirectoryPref, defaultSubfolder |-> d]
                 : d \in {<<>>, FolderI} }
  /\ \E fs \in InitialFileSystems : dirs = fs.dirs /\ files = fs.files
  /\ last = NoOp
  /\ nOps = 0
  /\ san = NoSan
  /\ app = NoApp
  /\ editor = NoEditor
  /\ procs \in { [run |-> [i \in Processes |->
                            [pc |-> "start", clip |-> c[i],
                             targetDir |-> <<>>, filename |-> <<>>,
                             filePath |-> <<>>, existedAtWrite |-> FALSE,
                             outcome |-> "none"]],
                  log |-> <<>>] : c \in [Processes -> RaceClips] }
  /\ inv = NoInv
  /\ res = NoRes

\* lines 53-94 of saveMarkdownFile() run by process i with the resolved
\* targetDir: the directory is created when missing, the clipboard is read,
\* the name is chosen and getUniqueFilePath probes the filesystem
ResolveIn(i, targetDir, now) ==
  IF MkdirThrows(CurrentFs, targetDir, FALSE)
    THEN /\ procs' = [procs EXCEPT !.run[i].pc = "done",
                                   !.run[i].targetDir = targetDir,
                                   !.run[i].outcome = "threw"]
         /\ UNCHANGED dirs
    ELSE /\ dirs' = EnsureDir(CurrentFs, targetDir).dirs
         /\ procs' =
              [procs EXCEPT
                 !.run[i] =
                   [@ EXCEPT
                      !.pc = "resolved",
                      !.targetDir = targetDir,
                      !.filename = QuickFilename(procs.run[i].clip, now),
                      !.filePath =
                        getUniqueFilePath(EnsureDir(CurrentFs, targetDir),
                                          targetDir,
                                          QuickFilename(procs.run[i].clip, now))],
                 !.log = Append(@, <<"check", i>>)]

Resolve(i) ==
  /\ procs.run[i].pc = "start"
  /\ \E now \in Clock : ResolveIn(i, QuickTargetDir(prefs, Undefined), now)
  /\ UNCHANGED <<prefs, files, last, nOps, san, app, editor, inv, res>>

\* lines 96-110 run by process i: fs.writeFileSync(filePath, content) and
\* the HUD, or the failure toast
Write(i) ==
  /\ procs.run[i].pc = "resolved"
  /\ IF WriteBlocked(CurrentFs, procs.run[i].filePath)
       THEN /\ procs' = [procs EXCEPT !.run[i].pc = "done",
                                      !.run[i].outcome = "toastSaveFailed"]
            /\ UNCHANGED files
       ELSE /\ files' = writeFileSync(CurrentFs, procs.run[i].filePath,
                                      procs.run[i].clip)
            /\ procs' =
                 [procs EXCEPT
                    !.run[i].pc = "done",
                    !.run[i].existedAtWrite =
                       existsSync(CurrentFs, procs.run[i].filePath),
                    !.run[i].outcome = "hudSaved",
                    !.log = Append(@, <<"write", i>>)]
  /\ UNCHANGED <<prefs, dirs, last, nOps, san, app, editor, inv, res>>

NextRace == \E i \in Processes : Resolve(i) \/ Write(i)

SpecRace == InitRace /\ [][NextRace]_vars

(***************************************************************************)
(* Several save handlers in one JavaScript event loop.  A handler runs     *)
(* from one await to the next without interruption; at an await any other  *)
(* handler may run.  The quick save awaits Clipboard.readText() and then   *)
(* showHUD or showToast; the form save awaits only after saveFile's write. *)
(***************************************************************************)
MaxHandlers == 2

Handlers == 1..MaxHandlers

\* clipboard texts and typed contents of the handlers; "?" takes the
\* timestamp name
LoopContents == { <<>>, <<"a">>, <<"a", "\n", "x">>, <<"?">> }

IdleHandler ==
  [pc |-> "idle", kind |-> "none", targetDir |-> <<>>, outcome |-> "none"]

InitLoop ==
  /\ prefs \in { [rootDirectory |-> RootDirectoryPref, defaultSubfolder |-> d]
                 : d \in {<<>>, FolderI} }
  /\ \E fs \in InitialFileSystems : dirs = fs.dirs /\ files = fs.files
  /\ last = NoOp
  /\ nOps = 0
  /\ san = NoSan
  /\ app = NoApp
  /\ editor = NoEditor
  /\ procs = [run |-> [i \in Handlers |-> IdleHandler], log |-> <<>>]
  /\ inv = NoInv
  /\ res = NoRes

\* the log after a run of the synchronous segment that holds the probe and
\* the write: a successful write is recorded with its path and its data
LoggedWrite(log, i, r, data) ==
  IF r.last.wrote
    THEN Append(log, [handler |-> i, filePath |-> r.last.filePath,
                      data |-> data, existed |-> r.last.existedBefore])
    ELSE log

\* saveMarkdownFile up to `await Clipboard.readText()` (lines 50-69)
LoopQuickStart(i) ==
  /\ procs.run[i].pc = "idle"
  /\ \E targetDir \in {QuickTargetDir(prefs, Undefined)} :
       IF MkdirThrows(CurrentFs, targetDir, FALSE)
         THEN /\ procs' = [procs EXCEPT !.run[i] =
                             [pc |-> "done", kind |-> "quick",
                              targetDir |-> targetDir, outcome |-> "threw"]]
              /\ UNCHANGED dirs
         ELSE /\ dirs' = EnsureDir(CurrentFs, targetDir).dirs
              /\ procs' = [procs EXCEPT !.run[i] =
                             [pc |-> "awaitClipboard", kind |-> "quick",
                              targetDir |-> targetDir, outcome |-> "none"]]
  /\ UNCHANGED <<prefs, files, last, nOps, san, app, editor, inv, res>>

\* saveMarkdownFile from the clipboard text to `await showHUD` or
\* `await showToast` (lines 69-109): the tests, getUniqueFilePath and
\* fs.writeFileSync run without an await between them
LoopQuickResume(i) ==
  /\ procs.run[i].pc = "awaitClipboard"
  /\ \E content \in LoopContents, now \in Clock :
       \E r \in {QuickSaveFrom([NoOp EXCEPT !.op = "quick",
                                            !.targetDir = procs.run[i].targetDir],
                               CurrentFs, procs.run[i].targetDir,
                               Some(content), now, FALSE)} :
         /\ files' = r.files
         /\ procs' = [procs EXCEPT !.run[i].pc = "awaitUi",
                                   !.run[i].outcome = r.last.outcome,
                                   !.log = LoggedWrite(@, i, r, content)]
  /\ UNCHANGED <<prefs, dirs, last, nOps, san, app, editor, inv, res>>

\* handleSubmit calling saveFile: the whole of saveFile up to its return or
\* its `await showToast` runs without an await (lines 164-228)
LoopFormSubmit(i) ==
  /\ procs.run[i].pc = "idle"
  /\ \E folder \in {RootSentinel, FolderI},
        content \in LoopContents, now \in Clock :
       \E r \in {saveFile(prefs, CurrentFs,
                          [folder |-> folder, content |-> content,
                           customFilename |-> <<>>],
                          now, FALSE, FALSE)} :
         /\ dirs' = r.dirs
         /\ files' = r.files
         /\ procs' = [procs EXCEPT !.run[i] =
                        [pc |-> "awaitUi", kind |-> "form",
                         targetDir |-> r.last.targetDir,
                         outcome |-> r.last.outcome],
                      !.log = LoggedWrite(@, i, r, FormTextContent(content))]
  /\ UNCHANGED <<prefs, last, nOps, san, app, editor, inv, res>>

\* the awaited HUD or toast resolves and the handler returns
LoopFinish(i) ==
  /\ procs.run[i].pc = "awaitUi"
  /\ procs' = [procs EXCEPT !.run[i].pc = "done"]
  /\ UNCHANGED <<prefs, dirs, files, last, nOps, san, app, editor, inv, res>>

NextLoop ==
  \E i \in Handlers :
    LoopQuickStart(i) \/ LoopQuickResume(i) \/ LoopFormSubmit(i) \/ LoopFinish(i)

SpecLoop == InitLoop /\ [][NextLoop]_vars

(***************************************************************************)
(* append-to-md.tsx: the Append to Markdown command.                       *)
(***************************************************************************)
\* if (depth > 5) return files: the calls of depth 0..5 list their items
MaxFilesDepth == 5

\* item.name.endsWith(".md")
EndsWithMd(name) ==
  Len(name) >= Len(Ext) /\ SubSeq(name, Len(name) - Len(Ext) + 1, Len(name)) = Ext

\* folder: currentPath || "Root Directory"
RootLabel ==
  << <<"R", "o", "o", "t", " ", "D", "i", "r", "e", "c", "t", "o", "r", "y">> >>

\* the entry pushed for the file name in the directory currentPath
MarkdownFile(rootDir, currentPath, name) ==
  [name |-> SubSeq(name, 1, Len(name) - Len(Ext)),
   path |-> PathJoin(rootDir, Append(currentPath, name)),
   folder |-> IF currentPath # <<>> THEN currentPath ELSE RootLabel]

\* an entry pushed twice
PushFileTwice(file) == <<file, file>>

\* files.push({...})
PushFile(file) == <<file>>

\* getMarkdownFiles(rootDir, currentPath, depth): the entries it returns,
\* in the order of the for loop over the items (ScanItems); a failed
\* readdirSync is caught and ends the loop of that call only
RECURSIVE getMarkdownFiles(_, _, _, _, _)
RECURSIVE ScanItems(_, _, _, _, _, _)
ScanItems(fs, unreadable, rootDir, currentPath, depth, items) ==
  IF items = {} THEN <<>>
  ELSE LET name == CHOOSE n \in items : TRUE
           relativePath == Append(currentPath, name)
           absolutePath == PathJoin(rootDir, relativePath)
       IN  (IF IsHidden(name) THEN <<>>
            ELSE IF absolutePath \in fs.dirs
              THEN getMarkdownFiles(fs, unreadable, rootDir, relativePath,
                                    depth + 1)
            ELSE IF absolutePath \in DOMAIN fs.files /\ EndsWithMd(name)
              THEN PushFile(MarkdownFile(rootDir, currentPath, name))
              ELSE <<>>)
           \o ScanItems(fs, unreadable, rootDir, currentPath, depth,
                        items \ {name})

getMarkdownFiles(fs, unreadable, rootDir, currentPath, depth) ==
  IF depth > MaxFilesDepth THEN <<>>
  ELSE IF ReaddirBlocked(fs, unreadable, PathJoin(rootDir, currentPath))
    THEN <<>>
    ELSE ScanItems(fs, unreadable, rootDir, currentPath, depth,
                   readdirSync(fs, PathJoin(rootDir, currentPath)))

\* the path fields of a list of entries
PathsOf(mdFiles) == {mdFiles[i].path : i \in 1..Len(mdFiles)}

\* existingContent.endsWith("\n")
EndsWithNewline(text) == text # <<>> /\ text[Len(text)] = "\n"

\* a normalization that never inserts a newline
NormalizingNewlineNever(existingContent) == <<>>

\* if (existingContent && !existingContent.endsWith("\n")) appendContent += "\n"
NormalizingNewline(existingContent) ==
  IF existingContent # <<>> /\ ~EndsWithNewline(existingContent)
    THEN <<"\n">>
    ELSE <<>>

\* if (addSeparator) appendContent += "\n---\n\n"; else appendContent += "\n"
SeparatorPart(addSeparator) ==
  IF addSeparator THEN <<"\n", "-", "-", "-", "\n", "\n">> ELSE <<"\n">>

\* now.toLocaleString("en-US", {year: "numeric", month: "2-digit",
\* day: "2-digit", hour: "2-digit", minute: "2-digit"}): "MM/DD/YYYY, hh:mm AM"
\* in the user's time zone, on the 12-hour clock
toLocaleString(now) ==
  LET localHour == now.hour + now.tz
  IN  Pad(now.month, 2) \o <<"/">> \o Pad(now.day, 2) \o <<"/">> \o
      Pad(now.year, 4) \o <<",", " ">> \o
      Pad(((localHour + 11) % 12) + 1, 2) \o <<":">> \o Pad(now.minute, 2) \o
      <<" ">> \o (IF localHour < 12 THEN <<"A", "M">> ELSE <<"P", "M">>)

\* if (addTimestamp) appendContent += `*${timestamp}*\n\n`
TimestampPart(addTimestamp, now) ==
  IF addTimestamp
    THEN <<"*">> \o toLocaleString(now) \o <<"*", "\n", "\n">>
    ELSE <<>>

\* a block that puts the timestamp before the separator
AppendContentStampFirst(existingContent, addSeparator, addTimestamp, now, content) ==
  NormalizingNewline(existingContent) \o TimestampPart(addTimestamp, now) \o
  SeparatorPart(addSeparator) \o content

\* appendContent as handleSubmit builds it
AppendContent(existingContent, addSeparator, addTimestamp, now, content) ==
  NormalizingNewline(existingContent) \o SeparatorPart(addSeparator) \o
  TimestampPart(addTimestamp, now) \o content

\* the files after a successful fs.appendFileSync(p, data): data is added
\* to the end of the file, which is created when it does not exist
appendFileSync(fs, p, data) ==
  [q \in (DOMAIN fs.files) \cup {p} |->
     IF q = p
       THEN (IF p \in DOMAIN fs.files THEN fs.files[p] ELSE <<>>) \o data
       ELSE fs.files[q]]

\* fs.readFileSync(p) throws when p is not a regular file
ReadBlocked(fs, p) == p \notin DOMAIN fs.files

\* selectedFile = "": nothing is selected
NoSelection == <<>>

\* a test that lets every text through
AppendEmptyNever(content) == FALSE

\* if (!content || content.trim() === "")
AppendEmpty(content) == content = <<>> \/ Trim(content) = <<>>

\* the record of a submit that has done nothing yet
SubmitRecord(fs, selectedFile, content, addSeparator, addTimestamp, readFails, appendFails) ==
  [selectedFile |-> selectedFile, content |-> content,
   addSeparator |-> addSeparator, addTimestamp |-> addTimestamp,
   readFails |-> readFails, appendFails |-> appendFails,
   now |-> NoTime, readCalled |-> FALSE, existingContent |-> <<>>,
   appendContent |-> <<>>, appendCalled |-> FALSE, wrote |-> FALSE,
   outcome |-> "none", message |-> "", before |-> fs.files,
   after |-> fs.files]

\* a try block that appends without reading the file first
AppendTryNoRead(base, fs, filePath, content, addSeparator, addTimestamp, now, readFails, appendFails) ==
  [files |-> appendFileSync(fs, filePath,
                            AppendContent(<<>>, addSeparator, addTimestamp,
                                          now, content)),
   sub |-> [base EXCEPT !.appendCalled = TRUE, !.wrote = TRUE,
                        !.outcome = "hudAppended"]]

\* try { readFileSync; build appendContent; appendFileSync; showHUD }
\* catch (error) { showToast("Append failed!", String(error)) }
AppendTry(base, fs, filePath, content, addSeparator, addTimestamp, now, readFails, appendFails) ==
  IF ReadBlocked(fs, filePath) \/ readFails
    THEN [files |-> fs.files,
          sub |-> [base EXCEPT !.readCalled = TRUE,
                               !.outcome = "toastAppendFailed",
                               !.message = "read error"]]
    ELSE LET existingContent == fs.files[filePath]
             appendContent == AppendContent(existingContent, addSeparator,
                                            addTimestamp, now, content)
             read == [base EXCEPT !.readCalled = TRUE,
                                  !.existingContent = existingContent,
                                  !.appendContent = appendContent,
                                  !.now = IF addTimestamp THEN now ELSE NoTime,
                                  !.appendCalled = TRUE]
         IN  IF appendFails
               THEN [files |-> fs.files,
                     sub |-> [read EXCEPT !.outcome = "toastAppendFailed",
                                          !.message = "append error"]]
               ELSE [files |-> appendFileSync(fs, filePath, appendContent),
                     sub |-> [read EXCEPT !.wrote = TRUE,
                                          !.outcome = "hudAppended"]]

\* One run of the append form's handleSubmit, up to its notification, on
\* the filesystem fs with the loaded list and the form's state.
appendHandleSubmit(fs, listed, selectedFile, content, addSeparator, addTimestamp, now, readFails, appendFails) ==
  LET base == SubmitRecord(fs, selectedFile, content, addSeparator,
                           addTimestamp, readFails, appendFails)
  IN  IF selectedFile = NoSelection
        THEN [files |-> fs.files,
              sub |-> [base EXCEPT !.outcome = "toastSelectFile"]]
      ELSE IF AppendEmpty(content)
        THEN [files |-> fs.files,
              sub |-> [base EXCEPT !.outcome = "toastEmpty"]]
      ELSE IF selectedFile \notin listed
        THEN [files |-> fs.files,
              sub |-> [base EXCEPT !.outcome = "toastNotFound"]]
      ELSE AppendTry(base, fs, selectedFile, content, addSeparator,
                     addTimestamp, now, readFails, appendFails)

\* the root directory of the append runs: notes a.md ("o", no final
\* newline), b.md ("o\n") and e.md (empty), and a regular file I
AppendFileSystems ==
  { [dirs |-> {<<>>}, files |-> NoFiles],
    [dirs |-> Prefixes(RootDir0),
     files |-> (FileIn(RootDir0, <<"a">> \o Ext) :> <<"o">>) @@
               (FileIn(RootDir0, <<"b">> \o Ext) :> <<"o", "\n">>) @@
               (FileIn(RootDir0, <<"e">> \o Ext) :> <<>>) @@
               (FileIn(RootDir0, <<"I">>) :> <<"o">>)] }

\* texts in the "Content to Append" field
AppendTexts == { <<>>, <<" ">>, <<"a">>, <<" ", "a", "\n">> }

\* a value of the dropdown that names a file outside the loaded list
StalePath == FileIn(RootDir0, <<"I">>)

\* the I/O error the host raises during one submit, if any
AppendIoErrors == {"none", "read", "append"}

NoSubmit ==
  SubmitRecord([files |-> NoFiles], NoSelection, <<>>, TRUE, FALSE,
               FALSE, FALSE)

InitAppend ==
  /\ prefs = [rootDirectory |-> RootDirectoryPref, defaultSubfolder |-> <<>>]
  /\ \E fs \in AppendFileSystems : dirs = fs.dirs /\ files = fs.files
  /\ last = NoOp
  /\ nOps = 0
  /\ san = NoSan
  /\ app = [phase |-> "mount", listed |-> {}, sub |-> NoSubmit]
  /\ editor = NoEditor
  /\ procs = NoProcs
  /\ inv = NoInv
  /\ res = NoRes

\* useEffect: loadData reads the clipboard and the list of Markdown files;
\* a failure is caught and leaves the list empty
LoadData ==
  /\ app.phase = "mount"
  /\ \E loadFails \in BOOLEAN :
       app' = [app EXCEPT !.phase = "ready",
                          !.listed = IF loadFails THEN {}
                                     ELSE PathsOf(getMarkdownFiles(CurrentFs,
                                            {}, PathOf(expandHome(prefs.rootDirectory)),
                                            <<>>, 0))]
  /\ UNCHANGED <<prefs, dirs, files, last, nOps, san, editor, procs, inv, res>>

\* the values onChange={setSelectedFile} can have stored: none before the
\* list is loaded; afterwards the value the host passed
SelectableFiles ==
  IF app.phase = "mount" THEN {NoSelection}
  ELSE app.listed \cup {NoSelection, StalePath}

\* the "Append Content" action: handleSubmit from the checks to its return;
\* a failure toast leaves the form open, the success path ends with
\* popToRoot()
AppendSubmit ==
  /\ app.phase \in {"mount", "ready"}
  /\ \E selectedFile \in SelectableFiles, content \in AppendTexts,
        addSeparator \in BOOLEAN, addTimestamp \in BOOLEAN,
        ioError \in AppendIoErrors :
       \E now \in (IF addTimestamp THEN Clock ELSE {NoTime}) :
         \E r \in {appendHandleSubmit(CurrentFs, app.listed, selectedFile,
                                      content, addSeparator, addTimestamp,
                                      now, ioError = "read",
                                      ioError = "append")} :
           /\ files' = r.files
           /\ app' = [app EXCEPT
                        !.sub = [r.sub EXCEPT !.after = r.files],
                        !.phase = IF r.sub.outcome = "hudAppended"
                                    THEN "closed" ELSE @]
  /\ UNCHANGED <<prefs, dirs, last, nOps, san, editor, procs, inv, res>>

\* another program deletes a listed file while the form is open
ExternalDelete ==
  /\ app.phase = "ready"
  /\ \E p \in app.listed \cap DOMAIN files :
       files' = [q \in (DOMAIN files) \ {p} |-> files[q]]
  /\ UNCHANGED <<prefs, dirs, last, nOps, san, app, editor, procs, inv, res>>

NextAppend == LoadData \/ AppendSubmit \/ ExternalDelete

SpecAppend == InitAppend /\ [][NextAppend]_vars

(***************************************************************************)
(* Submit events of one open form.  A handler runs from the event to its   *)
(* first pending await in one step; the host can deliver the next submit   *)
(* event while that notification is pending.  No handler sets or tests a   *)
(* flag that a submit is in progress.                                      *)
(***************************************************************************)
\* the commands that show a form
FormCommands == {"form", "append"}

\* texts typed into the form for the submit events
SubmitTexts == { <<>>, <<"a">>, <<"b">> }

InitSubmits ==
  /\ prefs = [rootDirectory |-> RootDirectoryPref, defaultSubfolder |-> <<>>]
  /\ \E fs \in AppendFileSystems : dirs = fs.dirs /\ files = fs.files
  /\ last = NoOp
  /\ nOps = 0
  /\ san = NoSan
  /\ app = [phase |-> "mount", listed |-> {}, sub |-> NoSubmit]
  /\ editor = NoEditor
  /\ procs = NoProcs
  /\ inv \in {[NoInv EXCEPT !.command = c, !.open = TRUE] : c \in FormCommands}
  /\ res = NoRes

\* a submit event of the save form: handleSubmit runs saveFile; after a
\* write it awaits showHUD, after a caught failure saveFile awaits its
\* toast; an exception of mkdirSync ends the handler at once
FormSubmitEvent ==
  /\ inv.command = "form"
  /\ inv.open
  /\ nOps < MaxOps
  /\ \E content \in SubmitTexts, now \in Clock, ioError \in IoErrors :
       \E r \in {saveFile(prefs, CurrentFs,
                            [folder |-> RootSentinel, content |-> content,
                             customFilename |-> <<>>],
                            now, ioError = "mkdir", ioError = "write")} :
           /\ dirs' = r.dirs
           /\ files' = r.files
           /\ last' = r.last
           /\ inv' = [inv EXCEPT
                        !.performed = @ + (IF r.last.wrote THEN 1 ELSE 0),
                        !.awaitingHud = @ + (IF r.last.wrote THEN 1 ELSE 0),
                        !.awaitingToast =
                           @ + (IF r.last.outcome \in
                                     {"toastEmpty", "toastSaveFailed"}
                                  THEN 1 ELSE 0)]
  /\ nOps' = nOps + 1
  /\ UNCHANGED <<prefs, san, app, editor, procs, res>>

\* a submit event of the append form: handleSubmit runs to the await of its
\* toast or, after appendFileSync, of showHUD
AppendSubmitEvent ==
  /\ inv.command = "append"
  /\ inv.open
  /\ nOps < MaxOps
  /\ \E selectedFile \in SelectableFiles \ {StalePath},
        content \in SubmitTexts, ioError \in AppendIoErrors :
       \E r \in {appendHandleSubmit(CurrentFs, app.listed, selectedFile,
                                    content, TRUE, FALSE, NoTime,
                                    ioError = "read", ioError = "append")} :
           /\ files' = r.files
           /\ app' = [app EXCEPT !.sub = [r.sub EXCEPT !.after = r.files]]
           /\ inv' = [inv EXCEPT
                        !.performed = @ + (IF r.sub.wrote THEN 1 ELSE 0),
                        !.awaitingHud = @ + (IF r.sub.wrote THEN 1 ELSE 0),
                        !.awaitingToast = @ + (IF r.sub.wrote THEN 0 ELSE 1)]
  /\ nOps' = nOps + 1
  /\ UNCHANGED <<prefs, dirs, last, san, editor, procs, res>>

\* the append form's loadData effect
SubmitsLoadData ==
  /\ inv.command = "append"
  /\ LoadData

\* await showToast(...) resolves: the handler returns, the form stays open
ToastResolves ==
  /\ inv.awaitingToast > 0
  /\ inv' = [inv EXCEPT !.awaitingToast = @ - 1]
  /\ UNCHANGED <<prefs, dirs, files, last, nOps, san, app, editor, procs, res>>

\* await showHUD(...) resolves and the handler goes on to popToRoot(),
\* which closes the form
HudResolves ==
  /\ inv.awaitingHud > 0
  /\ inv' = [inv EXCEPT !.awaitingHud = @ - 1, !.open = FALSE]
  /\ UNCHANGED <<prefs, dirs, files, last, nOps, san, app, editor, procs, res>>

NextSubmits ==
  \/ FormSubmitEvent
  \/ AppendSubmitEvent
  \/ SubmitsLoadData
  \/ ToastResolves
  \/ HudResolves

SpecSubmits == InitSubmits /\ [][NextSubmits]_vars

(***************************************************************************)
(* getSubfolders and getMarkdownFiles on their own.  The trees are a chain *)
(* of nested directories d/d/.../d below the root, one of them possibly    *)
(* hidden (.d), and a directory s.md beside the chain; every directory     *)
(* holds the files n.md, .n.md and t.  At most one directory is unreadable.*)
(***************************************************************************)
ChainName(k, hiddenAt) == IF k = hiddenAt THEN <<".", "d">> ELSE <<"d">>

\* the k-th directory of the chain; the root directory for k = 0
ChainDir(k, hiddenAt) ==
  PathJoin(RootDir0, [i \in 1..k |-> ChainName(i, hiddenAt)])

SiblingDir == FileIn(RootDir0, <<"s">> \o Ext)

TreeDirs(len, hiddenAt) ==
  {ChainDir(k, hiddenAt) : k \in 0..len} \cup {SiblingDir}

TreeFileNames == { <<"n">> \o Ext, <<".", "n">> \o Ext, <<"t">> }

Tree(len, hiddenAt) ==
  [dirs |-> Prefixes(RootDir0) \cup TreeDirs(len, hiddenAt),
   files |-> [p \in {FileIn(d, n) : d \in TreeDirs(len, hiddenAt),
                                    n \in TreeFileNames} |-> <<"o">>]]

InitTree ==
  /\ prefs = [rootDirectory |-> RootDirectoryPref, defaultSubfolder |-> <<>>]
  /\ \E len \in 0..MaxChain :
       \E hiddenAt \in 0..len :
         /\ dirs = Tree(len, hiddenAt).dirs
         /\ files = Tree(len, hiddenAt).files
         /\ \E unreadable \in {{}} \cup {{d} : d \in TreeDirs(len, hiddenAt)} :
              res = [done |-> FALSE, unreadable |-> unreadable,
                     folders |-> {}, mdFiles |-> <<>>]
  /\ last = NoOp
  /\ nOps = 0
  /\ san = NoSan
  /\ app = NoApp
  /\ editor = NoEditor
  /\ procs = NoProcs
  /\ inv = NoInv

\* the form calls getSubfolders(rootDir), the append and browse commands
\* call getMarkdownFiles(rootDir)
Enumerate ==
  /\ ~res.done
  /\ res' = [done |-> TRUE, unreadable |-> res.unreadable,
             folders |-> getSubfolders(CurrentFs, res.unreadable,
                                       PathOf(expandHome(prefs.rootDirectory)),
                                       <<>>, 0),
             mdFiles |-> getMarkdownFiles(CurrentFs, res.unreadable,
                                          PathOf(expandHome(prefs.rootDirectory)),
                                          <<>>, 0)]
  /\ UNCHANGED <<prefs, dirs, files, last, nOps, san, app, editor, procs, inv>>

NextTree == Enumerate

SpecTree == InitTree /\ [][NextTree]_vars

(***************************************************************************)
(* expandHome on its own: the root directory preference is any text over   *)
(* PathAlphabet of at most MaxPathLen characters; each command expands it  *)
(* when it starts.                                                         *)
(***************************************************************************)
MaxPathLen == 4

PathAlphabet == {"~", "/", "N"}

\* all texts over PathAlphabet of length n
RECURSIVE PathTextsOfLen(_)
PathTextsOfLen(n) ==
  IF n = 0 THEN {<<>>}
  ELSE {<<c>> \o t : c \in PathAlphabet, t \in PathTextsOfLen(n - 1)}

PathTexts == UNION {PathTextsOfLen(n) : n \in 0..MaxPathLen}

InitHome ==
  /\ prefs \in [rootDirectory : PathTexts, defaultSubfolder : {<<>>}]
  /\ dirs = {<<>>}
  /\ files = NoFiles
  /\ last = NoOp
  /\ nOps = 0
  /\ san = NoSan
  /\ app = NoApp
  /\ editor = NoEditor
  /\ procs = NoProcs
  /\ inv = NoInv
  /\ res = [done |-> FALSE, command |-> "none", output |-> <<>>, rootDir |-> <<>>]

\* the directory a command takes as its root: the quick save with neither
\* argument nor default subfolder, the form save into the root item, and
\* the directory the folder and file enumerations start from
CommandRoot(command, pr) ==
  IF command = "quick" THEN QuickTargetDir(pr, Undefined)
  ELSE IF command = "form" THEN FormTargetDir(pr, RootSentinel)
  ELSE PathOf(expandHome(pr.rootDirectory))

RootCommands == {"quick", "form", "append", "browse"}

\* const rootDir = expandHome(preferences.rootDirectory)
ExpandRoot ==
  /\ ~res.done
  /\ \E command \in RootCommands :
       res' = [done |-> TRUE, command |-> command,
               output |-> expandHome(prefs.rootDirectory),
               rootDir |-> CommandRoot(command, prefs)]
  /\ UNCHANGED <<prefs, dirs, files, last, nOps, san, app, editor, procs, inv>>

NextHome == ExpandRoot

SpecHome == InitHome /\ [][NextHome]_vars

(***************************************************************************)
(* getUniqueFilePath step by step: one action per call of fs.existsSync.   *)
(* The directory holds any of a.md, a-1.md, ..., a-MaxTaken.md.            *)
(***************************************************************************)
MaxTaken == 5

ProbeName == <<"a">>

\* the candidate path of the while loop for a counter
ProbeCandidate(counter) ==
  FileIn(RootDir0, ProbeName \o <<"-">> \o NumToStr(counter) \o Ext)

ProbeCandidates ==
  {FileIn(RootDir0, ProbeName \o Ext)} \cup {ProbeCandidate(c) : c \in 1..MaxTaken}

InitProbe ==
  /\ prefs = [rootDirectory |-> RootDirectoryPref, defaultSubfolder |-> <<>>]
  /\ dirs = Prefixes(RootDir0)
  /\ \E taken \in SUBSET ProbeCandidates : files = [p \in taken |-> <<"o">>]
  /\ last = NoOp
  /\ nOps = 0
  /\ san = NoSan
  /\ app = NoApp
  /\ editor = NoEditor
  /\ procs = NoProcs
  /\ inv = NoInv
  /\ res = [done |-> FALSE, pc |-> "first", counter |-> 0, filePath |-> <<>>]

\* if (!fs.existsSync(filePath)) return filePath; let counter = 1
ProbeFirst ==
  /\ res.pc = "first"
  /\ res' = IF ~existsSync(CurrentFs, FileIn(RootDir0, ProbeName \o Ext))
              THEN [done |-> TRUE, pc |-> "returned", counter |-> 0,
                    filePath |-> FileIn(RootDir0, ProbeName \o Ext)]
              ELSE [done |-> FALSE, pc |-> "loop", counter |-> 1,
                    filePath |-> <<>>]
  /\ UNCHANGED <<prefs, dirs, files, last, nOps, san, app, editor, procs, inv>>

\* a loop body that leaves the counter as it is
NextCounterStuck(counter) == counter

\* counter++
NextCounter(counter) == counter + 1

\* while (fs.existsSync(candidate)) counter++; return candidate
ProbeStep ==
  /\ res.pc = "loop"
  /\ res' = IF existsSync(CurrentFs, ProbeCandidate(res.counter))
              THEN [res EXCEPT !.counter = NextCounter(res.counter)]
              ELSE [done |-> TRUE, pc |-> "returned", counter |-> res.counter,
                    filePath |-> ProbeCandidate(res.counter)]
  /\ UNCHANGED <<prefs, dirs, files, last, nOps, san, app, editor, procs, inv>>

NextProbe == ProbeFirst \/ ProbeStep

\* the probe is synchronous code: once called it keeps running
SpecProbe == InitProbe /\ [][NextProbe]_vars /\ WF_vars(NextProbe)

(***************************************************************************)
(* browse-md-files.tsx: the files sorted newest first and grouped by date.  *)
(* Instants are whole seconds since the epoch (the code's milliseconds do   *)
(* not fit the checker's integers; the comparisons are the same).  The      *)
(* local time zone is a fixed offset of tz hours.                           *)
(***************************************************************************)
MaxFiles == 3

\* 24 * 60 * 60 * 1000 milliseconds, in seconds
DayLength == 24 * 60 * 60

\* new Date(now.getFullYear(), now.getMonth(), now.getDate()).getTime():
\* the instant of the last local midnight
LocalMidnight(now, tz) == now - ((now + tz * 60 * 60) % DayLength)

\* a comparison that puts an instant equal to a threshold in the older group
getDateGroupStrict(date, now, tz) ==
  IF date > LocalMidnight(now, tz) THEN "today"
  ELSE IF date > LocalMidnight(now, tz) - DayLength THEN "yesterday"
  ELSE IF date > LocalMidnight(now, tz) - 7 * DayLength THEN "past7days"
  ELSE IF date > LocalMidnight(now, tz) - 30 * DayLength THEN "past30days"
  ELSE "older"

\* getDateGroup(date) when new Date() reads now
getDateGroup(date, now, tz) ==
  IF date >= LocalMidnight(now, tz) THEN "today"
  ELSE IF date >= LocalMidnight(now, tz) - DayLength THEN "yesterday"
  ELSE IF date >= LocalMidnight(now, tz) - 7 * DayLength THEN "past7days"
  ELSE IF date >= LocalMidnight(now, tz) - 30 * DayLength THEN "past30days"
  ELSE "older"

\* const groupOrder
GroupOrder == <<"today", "yesterday", "past7days", "past30days", "older">>

DateGroups == {GroupOrder[i] : i \in 1..Len(GroupOrder)}

\* the loop of groupFilesByDate from the k-th file on; clock[k] is what
\* new Date() reads in the call of getDateGroup for the k-th file
RECURSIVE PushFilesFrom(_, _, _, _, _)
PushFilesFrom(groups, mdFiles, k, clock, tz) ==
  IF k > Len(mdFiles) THEN groups
  ELSE PushFilesFrom(
         [groups EXCEPT ![getDateGroup(mdFiles[k].modifiedTime, clock[k], tz)] =
                           Append(@, mdFiles[k])],
         mdFiles, k + 1, clock, tz)

groupFilesByDate(mdFiles, clock, tz) ==
  PushFilesFrom([g \in DateGroups |-> <<>>], mdFiles, 1, clock, tz)

\* file placed in a sequence sorted newest first, behind the files that are
\* not older than it
RECURSIVE InsertNewestFirst(_, _)
InsertNewestFirst(sorted, file) ==
  IF sorted = <<>> THEN <<file>>
  ELSE IF Head(sorted).modifiedTime >= file.modifiedTime
    THEN <<Head(sorted)>> \o InsertNewestFirst(Tail(sorted), file)
    ELSE <<file>> \o sorted

\* mdFiles.sort((a, b) => b.modifiedTime.getTime() - a.modifiedTime.getTime()),
\* a stable sort
RECURSIVE SortNewestFirst(_)
SortNewestFirst(mdFiles) ==
  IF mdFiles = <<>> THEN <<>>
  ELSE InsertNewestFirst(SortNewestFirst(SubSeq(mdFiles, 1, Len(mdFiles) - 1)),
                         mdFiles[Len(mdFiles)])

\* files.filter(f => f.folder === filterFolder), or all the files
FilterFiles(mdFiles, filterFolder) ==
  IF filterFolder = "all" THEN mdFiles
  ELSE SelectSeq(mdFiles, LAMBDA f : f.folder = filterFolder)

\* the instants the command starts at, with the time zone of the user:
\* 12:30 local time at UTC+8, and one second before midnight at UTC
BrowseTimes ==
  { [now |-> 1768278600, tz |-> 8], [now |-> 1768348799, tz |-> 0] }

\* modification times around each threshold, as offsets from the local
\* midnight before the start: in the future, at midnight, just before it,
\* and at and just before 24 hours, 7 days and 30 days before it
MtimeOffsets ==
  { DayLength + 60, 0, -1, -DayLength, -DayLength - 1, -7 * DayLength,
    -7 * DayLength - 1, -30 * DayLength, -30 * DayLength - 1 }

BrowseFolders == {"A", "B"}

\* the files getMarkdownFiles found, in directory order
FoundFiles(n, offsets, t) ==
  [i \in 1..n |-> [id |-> i,
                   folder |-> IF i % 2 = 1 THEN "A" ELSE "B",
                   modifiedTime |-> LocalMidnight(t.now, t.tz) + offsets[i]]]

InitGroup ==
  /\ prefs = [rootDirectory |-> RootDirectoryPref, defaultSubfolder |-> <<>>]
  /\ dirs = Prefixes(RootDir0)
  /\ files = NoFiles
  /\ last = NoOp
  /\ nOps = 0
  /\ san = NoSan
  /\ app = NoApp
  /\ editor = NoEditor
  /\ procs = NoProcs
  /\ inv = NoInv
  /\ \E t \in BrowseTimes, n \in 0..MaxFiles :
       \E offsets \in [1..n -> MtimeOffsets] :
         res = [done |-> FALSE, phase |-> "loading", now |-> t.now, tz |-> t.tz,
                found |-> FoundFiles(n, offsets, t), mdFiles |-> <<>>,
                filterFolder |-> "all", filteredFiles |-> <<>>,
                clock |-> <<>>, groups |-> [g \in DateGroups |-> <<>>]]

\* the effect of Command: the files are sorted newest first and stored
BrowseLoad ==
  /\ res.phase = "loading"
  /\ res' = [res EXCEPT !.phase = "loaded",
                        !.mdFiles = SortNewestFirst(res.found)]
  /\ UNCHANGED <<prefs, dirs, files, last, nOps, san, app, editor, procs, inv>>

\* what new Date() reads in the successive calls of getDateGroup: the clock
\* may pass to the next second before any of the calls
ClockReadings(now, n) ==
  { [i \in 1..n |-> IF tickAt # 0 /\ i >= tickAt THEN now + 1 ELSE now]
    : tickAt \in 0..n }

\* filteredFiles and groupedFiles for the chosen folder filter
BrowseGroup ==
  /\ res.phase = "loaded"
  /\ \E filterFolder \in {"all"} \cup BrowseFolders :
       \E filteredFiles \in {FilterFiles(res.mdFiles, filterFolder)} :
         \E clock \in ClockReadings(res.now, Len(filteredFiles)) :
           res' = [res EXCEPT !.done = TRUE,
                              !.phase = "grouped",
                              !.filterFolder = filterFolder,
                              !.filteredFiles = filteredFiles,
                              !.clock = clock,
                              !.groups = groupFilesByDate(filteredFiles, clock,
                                                          res.tz)]
  /\ UNCHANGED <<prefs, dirs, files, last, nOps, san, app, editor, procs, inv>>

NextGroup == BrowseLoad \/ BrowseGroup

SpecGroup == InitGroup /\ [][NextGroup]_vars

(***************************************************************************)
(* sanitizeFilename on its own: the inputs are a run of "a" of a length    *)
(* around the 80-character limit followed by a free tail.                  *)
(***************************************************************************)
SanAlphabet == {"a", " ", "\n", "?"}

\* all strings over SanAlphabet of length n
RECURSIVE StringsOfLen(_)
StringsOfLen(n) ==
  IF n = 0 THEN {<<>>}
  ELSE {<<c>> \o t : c \in SanAlphabet, t \in StringsOfLen(n - 1)}

Tails == UNION {StringsOfLen(n) : n \in 0..MaxTail}

Repeat(c, n) == [i \in 1..n |-> c]

\* lengths of the leading run: none, and the lengths that put the tail
\* across the limit
RunLengths == {0} \cup ((MaxFilenameLength - 3)..(MaxFilenameLength + 1))

SanInputs == {Repeat("a", k) \o t : k \in RunLengths, t \in Tails}

InitSan ==
  /\ prefs = [rootDirectory |-> RootDirectoryPref, defaultSubfolder |-> <<>>]
  /\ dirs = {<<>>}
  /\ files = NoFiles
  /\ last = NoOp
  /\ nOps = 0
  /\ san \in {[input |-> s, output |-> <<>>, again |-> <<>>, done |-> FALSE]
              : s \in SanInputs}
  /\ app = NoApp
  /\ editor = NoEditor
  /\ procs = NoProcs
  /\ inv = NoInv
  /\ res = NoRes

\* output = sanitizeFilename(input), again = sanitizeFilename(output)
Sanitize ==
  /\ ~san.done
  /\ san' = [input |-> san.input,
             output |-> sanitizeFilename(san.input),
             again |-> sanitizeFilename(sanitizeFilename(san.input)),
             done |-> TRUE]
  /\ UNCHANGED <<prefs, dirs, files, last, nOps, app, editor, procs, inv, res>>

NextSan == Sanitize

SpecSan == InitSan /\ [][NextSan]_vars

(***************************************************************************)
(* Properties of the save commands.                                        *)
(***************************************************************************)
\* the last command was a save
IsSave == last.op \in {"quick", "form"}

\* the last save got as far as choosing a base name
Named == IsSave /\ last.filename # <<>>

\* the names the timestamp fallback of the code can produce
FallbackNames == {TimestampName(t) : t \in Clock}

\* YYYYMMDDHHmmss of the local wall-clock time of an instant
LocalStamp(now) ==
  Pad(now.year, 4) \o Pad(now.month, 2) \o Pad(now.day, 2) \o
  Pad(now.hour + now.tz, 2) \o Pad(now.minute, 2) \o Pad(now.second, 2)

\* directory/base.md and directory/base-n.md
Plain(directory, base) == FileIn(directory, base \o Ext)

Suffixed(directory, base, n) ==
  FileIn(directory, base \o <<"-">> \o NumToStr(n) \o Ext)

\* p is base.md when that is free, else base-n.md for the smallest n >= 1
\* whose base-n.md is free; all other names of the family are taken
IsSmallestFree(fs, p, directory, base) ==
  \/ p = Plain(directory, base)
  \/ \E n \in 1..(Cardinality(DOMAIN fs.files) + 1) :
       /\ p = Suffixed(directory, base, n)
       /\ existsSync(fs, Plain(directory, base))
       /\ \A k \in 1..(n - 1) : existsSync(fs, Suffixed(directory, base, k))

\* C1: no save ever writes to a path that already existed: the path that
\* getUniqueFilePath returned and the save then wrote did not exist
\* immediately before the write, and it holds the save's file afterwards.
C1_NeverOverwrites ==
  last.wrote => ~last.existedBefore /\ last.filePath \in DOMAIN files

\* C1 witness: the second of two commands wrote a note whose plain name was
\* taken, so it went to a suffixed path that had been free.
C1_Witness ==
  /\ nOps = 2
  /\ last.wrote
  /\ last.filePath # Plain(last.targetDir, last.filename)
  /\ Plain(last.targetDir, last.filename) \in DOMAIN files

C3_EmptyFirstLineFallsBack ==
  ( /\ Named
    /\ last.customFilename = <<>>
    /\ sanitizeFilename(Trim(FirstLine(last.content))) = <<>> )
  => last.filename \in FallbackNames

\* C4: whenever the timestamp fallback is used, the base name is note-
\* followed by exactly the 14 digits YYYYMMDDHHmmss of the local wall-clock
\* time at save, and nothing else.
C4_TimestampFormat ==
  (Named /\ last.now # NoTime)
  => last.filename = <<"n", "o", "t", "e", "-">> \o LocalStamp(last.now)

\* C5: in every directory state and for every base name b, getUniqueFilePath
\* returns a path that does not exist, which is dir/b.md when that is free
\* and otherwise dir/b-n.md for the smallest n >= 1 with dir/b-n.md free; the
\* path a save allocated is of that form too.
C5_SmallestFreeSuffix ==
  /\ \A d \in dirs : \A b \in {<<"a">>, <<"b">>, last.filename} :
       /\ ~existsSync(CurrentFs, getUniqueFilePath(CurrentFs, d, b))
       /\ IsSmallestFree(CurrentFs, getUniqueFilePath(CurrentFs, d, b), d, b)
  /\ Named =>
       /\ IsSmallestFree(CurrentFs, last.filePath, last.targetDir,
                         last.filename)
       /\ ~last.existedBefore
       /\ ~last.wrote => ~existsSync(CurrentFs, last.filePath)

\* C5 witness: with a.md and a-1.md present in the target directory, a save
\* of a note named a wrote a-2.md.
C5_Witness ==
  /\ last.wrote
  /\ last.filename = <<"a">>
  /\ last.filePath = Suffixed(last.targetDir, <<"a">>, 2)
  /\ Plain(last.targetDir, <<"a">>) \in DOMAIN files
  /\ Suffixed(last.targetDir, <<"a">>, 1) \in DOMAIN files

\* C6: sanitizeFilename returns a string of length at most 80 with none of
\* the nine illegal characters, no leading whitespace, no trailing whitespace
\* and no two consecutive whitespace characters.
C6_SanitizeTotality ==
  san.done =>
    /\ Len(san.output) <= 80
    /\ \A i \in 1..Len(san.output) : san.output[i] \notin IllegalChars
    /\ san.output # <<>> =>
         /\ san.output[1] \notin Whitespace
         /\ san.output[Len(san.output)] \notin Whitespace
    /\ \A i \in 1..(Len(san.output) - 1) :
         ~(san.output[i] \in Whitespace /\ san.output[i + 1] \in Whitespace)

\* C7: sanitizeFilename is idempotent: sanitizing its result again changes
\* nothing.
C7_SanitizeIdempotent == san.done => san.again = san.output

\* C8: a save whose content is empty or whitespace-only creates no
\* directory, writes no file and reports the empty-content failure.
C8_EmptyContentNoMutation ==
  (IsSave /\ Trim(last.content) = <<>>)
  => ~last.madeDir /\ ~last.wrote /\ last.outcome = "toastEmpty"

\* C9: after a successful save, the file at the resulting path holds exactly
\* the content that was given, untrimmed and untransformed.
C9_RoundTrip == last.wrote => files[last.filePath] = last.content

\* C10: the quick save resolves its target directory as root/targetFolder
\* when a folder is supplied, else root/defaultSubfolder when that is
\* non-empty, else the root, and writes the note directly inside it; the
\* form save with a folder chosen writes inside root/folder whatever the
\* default subfolder is.
C10_FolderPrecedence ==
  LET rootDir == PathOf(expandHome(prefs.rootDirectory))
      resolved == IF Truthy(last.folder) THEN rootDir \o ValueOf(last.folder)
                  ELSE IF prefs.defaultSubfolder # <<>>
                    THEN rootDir \o prefs.defaultSubfolder
                    ELSE rootDir
  IN  /\ last.op = "quick" =>
           /\ last.targetDir = resolved
           /\ last.wrote => Parent(last.filePath) = resolved
      /\ (last.op = "form" /\ last.wrote /\ ValueOf(last.folder) # RootSentinel)
           => Parent(last.filePath) = rootDir \o ValueOf(last.folder)

\* C10 witness: with the default subfolder I configured, a quick save given
\* the folder W wrote its note inside root/W.
C10_Witness ==
  /\ last.op = "quick"
  /\ last.wrote
  /\ prefs.defaultSubfolder = FolderI
  /\ last.folder = Some(FolderW)
  /\ Parent(last.filePath) = PathOf(expandHome(prefs.rootDirectory)) \o FolderW

(***************************************************************************)
(* Properties of choosing a folder.                                        *)
(***************************************************************************)
\* the last command chose the root directory explicitly: the root item of
\* the folder list, or the value __root__ of the form's dropdown
ChoseRoot ==
  \/ last.op = "list" /\ last.folder = ListRootItem
  \/ last.op = "form" /\ last.folder = Some(RootSentinel)

\* C11: a note saved after choosing the root directory explicitly (root
\* item of the folder list, or __root__ in the form) lies in the root
\* directory itself, also when a non-empty default subfolder is configured.
C11_ExplicitRootSavesInRoot ==
  ChoseRoot /\ last.wrote =>
    Parent(last.filePath) = PathOf(expandHome(prefs.rootDirectory))

\* the last save reached the write step: a path was allocated and
\* fs.writeFileSync was called on it
ReachedWrite == IsSave /\ last.filePath # <<>>

\* C12: whenever a save reaches the write step its resolved target
\* directory exists as a directory, with all its ancestors, and the note's
\* path lies directly inside it.
C12_TargetDirExistsAtWrite ==
  ReachedWrite =>
    /\ Prefixes(last.targetDir) \subseteq dirs
    /\ Parent(last.filePath) = last.targetDir

(***************************************************************************)
(* Properties of the append command.                                       *)
(***************************************************************************)
\* the last submit of the append form, and the file it selected
Sub == app.sub

Submitted == app.phase # "off" /\ Sub.outcome # "none"

Appended == Submitted /\ Sub.wrote

\* what the last append added to the end of the selected file
AddedText ==
  SubSeq(Sub.after[Sub.selectedFile],
         Len(Sub.before[Sub.selectedFile]) + 1,
         Len(Sub.after[Sub.selectedFile]))

\* the separator/timestamp/content block of the last append
BlockAfterNewline ==
  SeparatorPart(Sub.addSeparator) \o
  TimestampPart(Sub.addTimestamp, Sub.now) \o Sub.content

\* C13 as amended: an append to a non-empty file that does not end with a
\* newline inserts exactly one newline before the separator/timestamp/
\* content block; an append to a file that ends with a newline, or to an
\* empty file, inserts none.
C13_NewlineNormalization ==
  Appended =>
    LET old == Sub.before[Sub.selectedFile]
    IN  AddedText =
          (IF old # <<>> /\ old[Len(old)] # "\n" THEN <<"\n">> ELSE <<>>)
          \o BlockAfterNewline

\* C13 witness: an append to a file whose content "o" has no final newline
C13_Witness ==
  Appended /\ Sub.before[Sub.selectedFile] = <<"o">>

\* C13 as stated: for every existing content, the empty file included, one
\* newline is inserted exactly when the file does not end with a newline.
C13_Original ==
  Appended =>
    LET old == Sub.before[Sub.selectedFile]
    IN  AddedText =
          (IF old = <<>> \/ old[Len(old)] # "\n" THEN <<"\n">> ELSE <<>>)
          \o BlockAfterNewline

\* C14: after a successful append the selected file holds its old content
\* followed by one block: the optional normalizing newline; "\n---\n\n"
\* with addSeparator and "\n" without; with addTimestamp "*<date/time>*"
\* and an empty line; then the text as typed.  All other files are unchanged.
C14_AppendedBlock ==
  Appended =>
    /\ DOMAIN Sub.after = DOMAIN Sub.before
    /\ \A q \in DOMAIN Sub.before :
         q # Sub.selectedFile => Sub.after[q] = Sub.before[q]
    /\ \E newline \in {<<>>, <<"\n">>} :
         Sub.after[Sub.selectedFile] =
           Sub.before[Sub.selectedFile] \o newline \o
           (IF Sub.addSeparator THEN <<"\n", "-", "-", "-", "\n", "\n">>
            ELSE <<"\n">>) \o
           (IF Sub.addTimestamp
              THEN <<"*">> \o toLocaleString(Sub.now) \o <<"*", "\n", "\n">>
              ELSE <<>>) \o
           Sub.content
    /\ Sub.addTimestamp => Sub.now \in Clock /\ "\n" \notin
         {toLocaleString(Sub.now)[i] : i \in 1..Len(toLocaleString(Sub.now))}

\* C14 witness: an append with separator and timestamp of a text with
\* leading and trailing whitespace
C14_Witness ==
  /\ Appended
  /\ Sub.addSeparator
  /\ Sub.addTimestamp
  /\ Sub.content = <<" ", "a", "\n">>

\* the last submit passed the three checks and its file could not be read:
\* it was deleted after the list was loaded, or the read failed
Unreadable ==
  /\ Submitted
  /\ Sub.selectedFile \in app.listed
  /\ Trim(Sub.content) # <<>>
  /\ (Sub.selectedFile \notin DOMAIN Sub.before \/ Sub.readFails)

\* C15: when the selected file cannot be read at submit time nothing is
\* written, no file is created or modified, and the append-failed toast
\* with the error text is shown.
C15_UnreadableWritesNothing ==
  Unreadable =>
    /\ Sub.after = Sub.before
    /\ ~Sub.appendCalled
    /\ Sub.outcome = "toastAppendFailed"
    /\ Sub.message # ""

\* C15 witness: the selected file was deleted after the list was loaded
C15_Witness ==
  /\ Unreadable
  /\ Sub.selectedFile \notin DOMAIN Sub.before
  /\ Sub.selectedFile \notin DOMAIN files

\* the last submit had no file selected, an empty or whitespace-only text,
\* or a selection outside the loaded list
Rejected ==
  /\ Submitted
  /\ \/ Sub.selectedFile = NoSelection
     \/ Trim(Sub.content) = <<>>
     \/ Sub.selectedFile \notin app.listed

\* C16: a submit with no file selected, with empty or whitespace-only text
\* or with a selection outside the loaded list reads and writes nothing and
\* ends with a failure toast.
C16_RejectedTouchesNothing ==
  Rejected =>
    /\ ~Sub.readCalled
    /\ ~Sub.appendCalled
    /\ Sub.after = Sub.before
    /\ Sub.outcome \in {"toastSelectFile", "toastEmpty", "toastNotFound"}

\* C16 witness: whitespace-only text for a listed file
C16_Witness ==
  /\ Rejected
  /\ Sub.selectedFile \in app.listed
  /\ Sub.content = <<" ">>

(***************************************************************************)
(* Properties of "Save and Open".                                          *)
(***************************************************************************)
\* C17: the editor is opened only for a file the save has just written; a
\* failure to open leaves that file on disk with the content written, and
\* is reported by the "saved, cannot open" notification, never by the
\* save-failed toast.
C17_OpenFailureKeepsSave ==
  /\ editor.called =>
       /\ last.op = "formOpen"
       /\ last.wrote
       /\ editor.filePath = last.filePath
       /\ editor.filePath \in DOMAIN files
  /\ editor.called /\ editor.failed =>
       /\ files[editor.filePath] = Trim(last.content)
       /\ editor.hud = "hudSavedCannotOpen"
       /\ last.outcome # "toastSaveFailed"

\* C17 witness: the note was written and the editor could not open it
C17_Witness ==
  /\ editor.called
  /\ editor.failed
  /\ last.wrote
  /\ last.filePath \in DOMAIN files

(***************************************************************************)
(* Properties of failures and of concurrent runs.                          *)
(***************************************************************************)
\* C18: every filesystem failure during a save, of the creation of the
\* target directory as well as of the write, is caught and ends in the
\* failure toast: saveMarkdownFile and saveFile never end by an exception.
C18_FailuresCaught ==
  IsSave => last.outcome \in {"toastEmpty", "toastSaveFailed", "hudSaved"}

\* both processes passed getUniqueFilePath before either wrote
BothCheckedFirst ==
  /\ Len(procs.log) >= 2
  /\ procs.log[1][1] = "check"
  /\ procs.log[2][1] = "check"

\* the two processes save into the same directory under the same base name
SameBaseName ==
  /\ procs.run[1].targetDir = procs.run[2].targetDir
  /\ procs.run[1].filename = procs.run[2].filename

\* the process that wrote last
LastWriter == procs.log[Len(procs.log)][2]

\* C19: when two quick saves with the same directory and base name both
\* pass the existence check before either writes, both resolve the same
\* path; both writes succeed with the success HUD, the second one finds the
\* file of the first and replaces it, and the file ends with the second
\* writer's text.
C19_CheckThenWriteRace ==
  BothCheckedFirst /\ SameBaseName =>
    /\ procs.run[1].filePath = procs.run[2].filePath
    /\ Len(procs.log) = 4 =>
         /\ \A i \in Processes : procs.run[i].outcome = "hudSaved"
         /\ procs.run[LastWriter].existedAtWrite
         /\ files[procs.run[1].filePath] = procs.run[LastWriter].clip

\* C19 witness: the interleaving check, check, write, write happened for
\* two different notes with the same first line, and the first note is gone
C19_Witness ==
  /\ BothCheckedFirst
  /\ SameBaseName
  /\ Len(procs.log) = 4
  /\ procs.run[1].clip # procs.run[2].clip
  /\ procs.run[1].filePath = procs.run[2].filePath
  /\ \A i \in Processes : procs.run[i].outcome = "hudSaved"
  /\ \E i \in Processes :
       \A p \in DOMAIN files : files[p] # procs.run[i].clip

\* the handlers of the open form that have started and not yet returned
RunningHandlers == inv.awaitingHud + inv.awaitingToast

\* C20: within one invocation of a form command at most one save or append
\* is performed and at most one handler is running at any time, whatever
\* submit events arrive.
C20_SingleShot ==
  inv.command \in FormCommands =>
    /\ inv.performed <= 1
    /\ RunningHandlers <= 1

(***************************************************************************)
(* Properties of the enumerations.                                         *)
(***************************************************************************)
\* the enumerations have run on the tree
Enumerated == res.done /\ "folders" \in DOMAIN res

\* C21: no folder returned by getSubfolders lies more than 3 segments
\* below the root.
C21_FoldersAtMostThreeDeep ==
  Enumerated => \A f \in res.folders : Len(f) <= 3

(***************************************************************************)
(* Properties of expandHome.                                               *)
(***************************************************************************)
\* a command has expanded the root directory preference
Expanded == res.done /\ "output" \in DOMAIN res

\* the preference starts with the home marker
StartsWithMarker == prefs.rootDirectory # <<>> /\ Head(prefs.rootDirectory) = "~"

\* C22: expandHome returns its argument unchanged when it does not start
\* with "~"; otherwise it returns the home directory joined with the text
\* after the marker: an absolute path made of the home directory's segments
\* followed by the segments of that text.  Every command takes the directory
\* this value names as its root.
C22_ExpandHome ==
  Expanded =>
    /\ ~StartsWithMarker => res.output = prefs.rootDirectory
    /\ StartsWithMarker =>
         /\ Head(res.output) = "/"
         /\ PathOf(res.output) = PathOf(HOME) \o PathOf(Tail(prefs.rootDirectory))
    /\ res.rootDir = PathOf(res.output)

\* a preference "~/N" has been expanded below the home directory
C22_Witness ==
  /\ Expanded
  /\ prefs.rootDirectory = <<"~", "/", "N">>
  /\ res.output = <<"/", "h", "/", "N">>
  /\ res.command = "quick"

\* the segment begins with a dot
BeginsWithDot(segment) == segment # <<>> /\ segment[1] = "."

\* the part of an absolute path below the root directory
BelowRoot(p) == SubSeq(p, Len(RootDir0) + 1, Len(p))

\* C23: no folder returned by getSubfolders and no file returned by
\* getMarkdownFiles has, below the root, a directory or file name that
\* begins with a dot.
C23_NoHiddenEntries ==
  Enumerated =>
    /\ \A f \in res.folders : \A i \in 1..Len(f) : ~BeginsWithDot(f[i])
    /\ \A k \in 1..Len(res.mdFiles) :
         \A i \in 1..Len(BelowRoot(res.mdFiles[k].path)) :
           ~BeginsWithDot(BelowRoot(res.mdFiles[k].path)[i])

\* a tree whose second directory is hidden and holds a file and a directory
\* has been enumerated, and the directory above it was listed
C23_Witness ==
  /\ Enumerated
  /\ res.unreadable = {}
  /\ ChainDir(3, 2) \in dirs
  /\ FileIn(ChainDir(2, 2), <<"n">> \o Ext) \in DOMAIN files
  /\ << <<"d">> >> \in res.folders
  /\ FileIn(ChainDir(1, 2), <<"n">> \o Ext) \in PathsOf(res.mdFiles)

\* the directories from the root down to the one holding p
DirectoriesAbove(p) ==
  {SubSeq(p, 1, n) : n \in Len(RootDir0)..(Len(p) - 1)}

\* the regular files the enumeration has to return: below the root, in a
\* directory at most 5 levels down, named *.md, with no name on the way
\* beginning with a dot and every directory on the way readable
ExpectedMarkdownFiles ==
  { p \in DOMAIN files :
      /\ Len(p) > Len(RootDir0)
      /\ SubSeq(p, 1, Len(RootDir0)) = RootDir0
      /\ Len(BelowRoot(p)) - 1 <= 5
      /\ \A i \in 1..Len(BelowRoot(p)) : ~BeginsWithDot(BelowRoot(p)[i])
      /\ Len(p[Len(p)]) >= 3
      /\ SubSeq(p[Len(p)], Len(p[Len(p)]) - 2, Len(p[Len(p)])) = <<".", "m", "d">>
      /\ DirectoriesAbove(p) \cap res.unreadable = {} }

\* C24: getMarkdownFiles returns, each exactly once, exactly the regular
\* files named *.md that lie at most 5 directory levels below the root and
\* are reachable through non-hidden directories; each entry's name is the
\* file name without ".md" and its folder is the relative directory, or the
\* root label for a file directly in the root.
C24_MarkdownFilesExact ==
  Enumerated =>
    /\ PathsOf(res.mdFiles) = ExpectedMarkdownFiles
    /\ Len(res.mdFiles) = Cardinality(ExpectedMarkdownFiles)
    /\ \A k \in 1..Len(res.mdFiles) :
         LET f == res.mdFiles[k]
             rel == BelowRoot(f.path)
         IN  /\ f.name \o <<".", "m", "d">> = rel[Len(rel)]
             /\ f.folder = IF Len(rel) = 1 THEN RootLabel
                           ELSE SubSeq(rel, 1, Len(rel) - 1)

\* a readable chain of seven directories has been enumerated: the files of
\* the root, of the five directories below it and of s.md are returned
C24_Witness ==
  /\ Enumerated
  /\ res.unreadable = {}
  /\ ChainDir(7, 0) \in dirs
  /\ Len(res.mdFiles) = 7
  /\ FileIn(ChainDir(5, 0), <<"n">> \o Ext) \in PathsOf(res.mdFiles)
  /\ FileIn(ChainDir(6, 0), <<"n">> \o Ext) \notin PathsOf(res.mdFiles)

\* p is at or below a directory that cannot be read
AtOrBelowUnreadable(p) ==
  \E d \in res.unreadable :
    Len(p) >= Len(d) /\ SubSeq(p, 1, Len(d)) = d

\* C25: when a directory cannot be read, getSubfolders and getMarkdownFiles
\* still return a result, and it is the result for the readable tree without
\* the entries of that directory's subtree: the folders strictly below it
\* and the files in or below it.  Every other entry is returned.
C25_FailedReadDropsOnlySubtree ==
  Enumerated =>
    /\ res.folders =
         { f \in getSubfolders(CurrentFs, {}, RootDir0, <<>>, 0) :
             ~AtOrBelowUnreadable(PathJoin(RootDir0, Parent(f))) }
    /\ PathsOf(res.mdFiles) =
         { p \in PathsOf(getMarkdownFiles(CurrentFs, {}, RootDir0, <<>>, 0)) :
             ~AtOrBelowUnreadable(Parent(p)) }

\* the first directory of a chain could not be read: it is listed, nothing
\* below it is, and the root's file and the sibling s.md are returned
C25_Witness ==
  /\ Enumerated
  /\ res.unreadable = {ChainDir(1, 0)}
  /\ ChainDir(2, 0) \in dirs
  /\ << <<"d">> >> \in res.folders
  /\ << <<"d">>, <<"d">> >> \notin res.folders
  /\ << <<"s">> \o Ext >> \in res.folders
  /\ FileIn(RootDir0, <<"n">> \o Ext) \in PathsOf(res.mdFiles)
  /\ FileIn(SiblingDir, <<"n">> \o Ext) \in PathsOf(res.mdFiles)
  /\ FileIn(ChainDir(1, 0), <<"n">> \o Ext) \notin PathsOf(res.mdFiles)

(***************************************************************************)
(* Termination of the counter probe.                                       *)
(***************************************************************************)
\* C26: the counter probe of getUniqueFilePath terminates: whatever of
\* a.md, a-1.md, a-2.md, ... the directory holds, the probe eventually
\* returns a path.
C26_ProbeTerminates == <>(res.done /\ res.pc = "returned" /\ res.filePath # <<>>)

\* the probe has returned after counting past four taken suffixes
C26_Witness ==
  /\ res.done
  /\ "pc" \in DOMAIN res
  /\ res.pc = "returned"
  /\ res.counter >= 5
  /\ res.filePath = ProbeCandidate(res.counter)
  /\ ~existsSync(CurrentFs, res.filePath)

(***************************************************************************)
(* Saves interleaved in one event loop.                                    *)
(***************************************************************************)
\* the successful writes of the handlers, in the order they happened
Writes == procs.log

\* handlers run in one event loop
InLoop == procs.run # <<>> /\ "kind" \in DOMAIN procs.run[1]

\* C27: in one event loop, whatever the order in which the handlers'
\* segments run, no save writes a path that exists or that another save
\* wrote, and every note written is still on disk under its path with the
\* text that was written.
C27_LoopSavesDistinct ==
  InLoop =>
    /\ \A j \in 1..Len(Writes) : ~Writes[j].existed
    /\ \A j, k \in 1..Len(Writes) :
         j # k => Writes[j].filePath # Writes[k].filePath
    /\ \A j \in 1..Len(Writes) :
         /\ Writes[j].filePath \in DOMAIN files
         /\ files[Writes[j].filePath] = Writes[j].data

\* two quick saves both passed their clipboard await before either ran its
\* probe and write; both wrote the note "a", into a file of its own each
C27_Witness ==
  /\ InLoop
  /\ Len(Writes) = 2
  /\ Writes[1].handler # Writes[2].handler
  /\ \A i \in {1, 2} : procs.run[i].kind = "quick" /\ procs.run[i].pc = "awaitUi"
  /\ Writes[1].data = <<"a">>
  /\ Writes[2].data = <<"a">>
  /\ Writes[1].filePath # Writes[2].filePath

(***************************************************************************)
(* The form's custom filename and the effect of a save on the filesystem.  *)
(***************************************************************************)
\* the form save got as far as choosing a name
FormNamed == last.op = "form" /\ last.filename # <<>>

\* the custom filename is not empty after trimming but only holds
\* characters that sanitizeFilename removes
CustomOnlyIllegal ==
  /\ Trim(last.customFilename) # <<>>
  /\ sanitizeFilename(Trim(last.customFilename)) = <<>>

\* C28: in the form save, a custom filename that is non-empty after
\* trimming but sanitizes to the empty string gives the timestamp fallback
\* name, also when the first line of the content sanitizes to a usable
\* name; the first line names the file only when the trimmed custom filename
\* is empty.
C28_IllegalCustomNameFallsBack ==
  FormNamed =>
    /\ CustomOnlyIllegal =>
         /\ last.now # NoTime
         /\ last.filename = TimestampName(last.now)
    /\ Trim(last.customFilename) # <<>> =>
         last.filename \in {sanitizeFilename(Trim(last.customFilename)),
                            TimestampName(last.now)}

\* the form saved the content "a" with the custom filename "?": the file
\* has the timestamp name and not the name a
C28_Witness ==
  /\ FormNamed
  /\ last.wrote
  /\ last.customFilename = <<"?">>
  /\ last.content = <<"a">>
  /\ last.filename = TimestampName(last.now)
  /\ last.filename # <<"a">>
  /\ files[last.filePath] = <<"a">>

\* C29: a save that succeeds adds exactly one file, at a path that held
\* nothing before, and leaves the content of every file that existed
\* unchanged; a save that is rejected for empty content, or whose write or
\* directory creation fails, leaves the files as they were.
C29_SaveAddsOneFile ==
  [][ /\ last'.wrote =>
           /\ last'.outcome = "hudSaved"
           /\ last'.filePath \notin DOMAIN files
           /\ DOMAIN files' = DOMAIN files \cup {last'.filePath}
           /\ \A p \in DOMAIN files : files'[p] = files[p]
      /\ ~last'.wrote =>
           /\ last'.outcome \in {"toastEmpty", "toastSaveFailed", "threw"}
           /\ files' = files ]_vars

\* a save into the root directory that held a.md, a-1.md and I added a
\* fourth file and the three old ones still hold their text
C29_Witness ==
  /\ last.wrote
  /\ last.outcome = "hudSaved"
  /\ Cardinality(DOMAIN files) = 4
  /\ last.filePath \in DOMAIN files
  /\ \A p \in DOMAIN files \ {last.filePath} : files[p] = <<"o">>
  /\ files[last.filePath] # <<"o">>

(***************************************************************************)
(* Properties of the grouping by date.                                     *)
(***************************************************************************)
\* the files have been grouped
Grouped == res.done /\ "groups" \in DOMAIN res

\* the positions in the grouped input of the files of group g, in the order
\* the group holds them
PositionsIn(g) ==
  [k \in 1..Len(res.groups[g]) |->
     CHOOSE i \in 1..Len(res.filteredFiles) :
       res.filteredFiles[i].id = res.groups[g][k].id]

\* the group the thresholds give an instant: today from the local midnight
\* on, then yesterday, past7days and past30days from 24 hours, 7 days and
\* 30 days before that midnight on, else older
ThresholdGroup(mtime, midnight) ==
  CHOOSE g \in DateGroups :
    \/ g = "today" /\ mtime >= midnight
    \/ g = "yesterday" /\ mtime < midnight /\ mtime >= midnight - 86400
    \/ g = "past7days" /\ mtime < midnight - 86400
                       /\ mtime >= midnight - 7 * 86400
    \/ g = "past30days" /\ mtime < midnight - 7 * 86400
                        /\ mtime >= midnight - 30 * 86400
    \/ g = "older" /\ mtime < midnight - 30 * 86400

\* C30: groupFilesByDate is a partition of its input into the five groups:
\* every file is in exactly one group, once, the one its modification time
\* reaches first among the thresholds taken from the local midnight of the
\* moment it is classified; the group sizes sum to the input size and each
\* group holds its files in the input's order, newest first.
C30_GroupsPartitionByDate ==
  Grouped =>
    /\ DOMAIN res.groups = {"today", "yesterday", "past7days", "past30days", "older"}
    /\ \A i \in 1..Len(res.filteredFiles) :
         \A g \in DOMAIN res.groups :
           Cardinality({k \in 1..Len(res.groups[g]) :
                          res.groups[g][k] = res.filteredFiles[i]})
             = IF g = ThresholdGroup(res.filteredFiles[i].modifiedTime,
                                     LocalMidnight(res.clock[i], res.tz))
                 THEN 1 ELSE 0
    /\ Len(res.groups["today"]) + Len(res.groups["yesterday"])
         + Len(res.groups["past7days"]) + Len(res.groups["past30days"])
         + Len(res.groups["older"]) = Len(res.filteredFiles)
    /\ \A g \in DOMAIN res.groups :
         \A j, k \in 1..Len(res.groups[g]) :
           j < k => /\ PositionsIn(g)[j] < PositionsIn(g)[k]
                    /\ res.groups[g][j].modifiedTime >= res.groups[g][k].modifiedTime

\* three files, modified exactly at the local midnight, one second before
\* it and exactly 24 hours before it, were grouped as today, yesterday,
\* yesterday
C30_Witness ==
  /\ Grouped
  /\ res.filterFolder = "all"
  /\ Len(res.filteredFiles) = 3
  /\ Len(res.groups["today"]) = 1
  /\ res.groups["today"][1].modifiedTime = LocalMidnight(res.now, res.tz)
  /\ Len(res.groups["yesterday"]) = 2
  /\ res.groups["yesterday"][1].modifiedTime = LocalMidnight(res.now, res.tz) - 1
  /\ res.groups["yesterday"][2].modifiedTime = LocalMidnight(res.now, res.tz) - 86400
====
